---- MODULE Spec2Model ----
(***************************************************************************)
(* Model of the extraction/parsing core of cuan-bot-expense                *)
(* (src/expense_bot/parser.py, src/expense_bot/ocr.py).                    *)
(*                                                                         *)
(* Python strings are modelled as sequences of one-character strings, so   *)
(* that substring tests, regular-expression matching, splitting and        *)
(* number parsing are computed character by character as the code does.    *)
(* An Optional[int] is the empty tuple (None) or a one-element tuple.      *)
(***************************************************************************)
EXTENDS Integers, Sequences, FiniteSets, TLC

VARIABLES
    token,      \* argument of parse_amount_token / _is_plausible_money_token
    amount,     \* value returned by parse_amount_token (<<>> is None)
    plausible,  \* value returned by _is_plausible_money_token
    tpc,        \* position of the token-level call: "idle", "start", "done"
    ocr_input,  \* argument of extract_receipt_data: [kind, lines] or [kind, text]
    ocr,        \* the locals and the OCRResult of the extract_receipt_data call
    opc,        \* position of the extract_receipt_data call
    xt_lines,   \* argument `lines` of _extract_total
    xt_bank,    \* argument `is_bank_transaction` of _extract_total
    xt,         \* the locals and the returned pair of the _extract_total call
    xpc,        \* position of the _extract_total call
    text_input, \* argument of a text-level parser call
    text_frame, \* the locals and the returned value of that call
    ppc,        \* position of the text-level call
    bill,       \* the ParsedSplitBill handed to _reply_split_bill
    per_person, \* the share _reply_split_bill reports
    spc,        \* position of the _reply_split_bill call
    pending,    \* user_data["pending_receipt"] of the chat (<<>> when absent)
    expenses,   \* the expenses recorded for the chat, oldest first
    reply       \* kind of the last reply the chat handler sent

vars == <<token, amount, plausible, tpc, ocr_input, ocr, opc, xt_lines, xt_bank, xt, xpc,
          text_input, text_frame, ppc, bill, per_person, spc, pending, expenses, reply>>

tokenVars == <<token, amount, plausible, tpc>>

ocrVars == <<ocr_input, ocr, opc>>

totalVars == <<xt_lines, xt_bank, xt, xpc>>

textVars == <<text_input, text_frame, ppc>>

shareVars == <<bill, per_person, spc>>

chatVars == <<pending, expenses, reply>>

----------------------------------------------------------------------------
(* Characters and the str methods the code uses.                           *)

Digits == {"0","1","2","3","4","5","6","7","8","9"}

LowerLetters == {"a","b","c","d","e","f","g","h","i","j","k","l","m",
                 "n","o","p","q","r","s","t","u","v","w","x","y","z"}

LowerOf == [A |-> "a", B |-> "b", C |-> "c", D |-> "d", E |-> "e", F |-> "f",
            G |-> "g", H |-> "h", I |-> "i", J |-> "j", K |-> "k", L |-> "l",
            M |-> "m", N |-> "n", O |-> "o", P |-> "p", Q |-> "q", R |-> "r",
            S |-> "s", T |-> "t", U |-> "u", V |-> "v", W |-> "w", X |-> "x",
            Y |-> "y", Z |-> "z"]

UpperOf == [a |-> "A", b |-> "B", c |-> "C", d |-> "D", e |-> "E", f |-> "F",
            g |-> "G", h |-> "H", i |-> "I", j |-> "J", k |-> "K", l |-> "L",
            m |-> "M", n |-> "N", o |-> "O", p |-> "P", q |-> "Q", r |-> "R",
            s |-> "S", t |-> "T", u |-> "U", v |-> "V", w |-> "W", x |-> "X",
            y |-> "Y", z |-> "Z"]

UpperLetters == DOMAIN LowerOf

IsDigit(c) == c \in Digits

IsAlpha(c) == c \in LowerLetters \/ c \in UpperLetters

IsAlnum(c) == IsAlpha(c) \/ IsDigit(c)

\* the whitespace of the modelled texts
Spaces == {" ", "\n"}

IsSpace(c) == c \in Spaces

\* A regular-expression word character (\w), the class \b is defined on.
IsWord(c) == IsAlnum(c) \/ c = "_"

LowerChar(c) == IF c \in UpperLetters THEN LowerOf[c] ELSE c

UpperChar(c) == IF c \in LowerLetters THEN UpperOf[c] ELSE c

DigitVal(c) ==
    CASE c = "0" -> 0 [] c = "1" -> 1 [] c = "2" -> 2 [] c = "3" -> 3
      [] c = "4" -> 4 [] c = "5" -> 5 [] c = "6" -> 6 [] c = "7" -> 7
      [] c = "8" -> 8 [] c = "9" -> 9

\* str.lower()
ToLower(s) == [i \in 1..Len(s) |-> LowerChar(s[i])]

\* s[i:] and s[:i] with Python's 0-based offsets
From(s, i) == SubSeq(s, i + 1, Len(s))

Upto(s, i) == SubSeq(s, 1, i)

\* s.startswith(p, i - 1), i the 1-based position
StartsWithAt(s, i, p) ==
    /\ i >= 1
    /\ i + Len(p) - 1 <= Len(s)
    /\ SubSeq(s, i, i + Len(p) - 1) = p

StartsWith(s, p) == StartsWithAt(s, 1, p)

EndsWith(s, p) == Len(p) <= Len(s) /\ StartsWithAt(s, Len(s) - Len(p) + 1, p)

\* `p in s`
Contains(s, p) ==
    \E i \in 1..(Len(s) - Len(p) + 1) : SubSeq(s, i, i + Len(p) - 1) = p

\* s.find(p): the 0-based offset of the first occurrence (the code calls it
\* only where p in s)
Find(s, p) ==
    LET at == {i \in 1..(Len(s) - Len(p) + 1) : SubSeq(s, i, i + Len(p) - 1) = p}
    IN (CHOOSE i \in at : \A j \in at : i <= j) - 1

\* s.replace(old, new): leftmost non-overlapping occurrences, old non-empty
RECURSIVE Replace(_, _, _)
Replace(s, old, new) ==
    IF s = <<>> THEN <<>>
    ELSE IF StartsWith(s, old)
         THEN new \o Replace(From(s, Len(old)), old, new)
         ELSE <<Head(s)>> \o Replace(Tail(s), old, new)

\* s.strip()
RECURSIVE LStrip(_)
LStrip(s) == IF s # <<>> /\ IsSpace(Head(s)) THEN LStrip(Tail(s)) ELSE s

RECURSIVE RStrip(_)
RStrip(s) ==
    IF s # <<>> /\ IsSpace(s[Len(s)]) THEN RStrip(Upto(s, Len(s) - 1)) ELSE s

Strip(s) == RStrip(LStrip(s))

\* re.sub(r"\D", "", s)
DigitsOnly(s) == SelectSeq(s, IsDigit)

\* int(s) for a string of decimal digits
RECURSIVE ToInt(_)
ToInt(ds) ==
    IF ds = <<>> THEN 0
    ELSE ToInt(Upto(ds, Len(ds) - 1)) * 10 + DigitVal(ds[Len(ds)])

\* s.split(sep) for a one-character separator
RECURSIVE Split(_, _)
Split(s, sep) ==
    IF \A i \in 1..Len(s) : s[i] # sep THEN <<s>>
    ELSE LET i == CHOOSE k \in 1..Len(s) :
                     s[k] = sep /\ \A j \in 1..(k - 1) : s[j] # sep
         IN <<Upto(s, i - 1)>> \o Split(From(s, i), sep)

\* sep.join(parts)
RECURSIVE Join(_, _)
Join(parts, sep) ==
    IF parts = <<>> THEN <<>>
    ELSE IF Len(parts) = 1 THEN parts[1]
    ELSE parts[1] \o sep \o Join(Tail(parts), sep)

RECURSIVE Pow10(_)
Pow10(n) == IF n = 0 THEN 1 ELSE 10 * Pow10(n - 1)

Min(S) == CHOOSE x \in S : \A y \in S : x <= y

Max(S) == CHOOSE x \in S : \A y \in S : y <= x

None == <<>>

Some(x) == <<x>>

----------------------------------------------------------------------------
(* parser.py: the amount normalizer                                        *)

\* the tuple the for loop of parse_amount_token walks, in its order
SUFFIX_CANDIDATES == << <<"r","i","b","u">>, <<"r","b">>, <<"k">>, <<"j","u","t","a">>, <<"j","t">> >>

\* float(text) for the finite forms a token can hold: an optional sign, digits
\* with at most one '.', at least one digit.  The value is <<negative,
\* mantissa, number of fraction digits>>; <<>> stands for every other text.
ParseFloat(text) ==
    LET signed == text # <<>> /\ text[1] \in {"+", "-"}
        body == IF signed THEN Tail(text) ELSE text
        parts == Split(body, ".")
    IN IF /\ Len(parts) <= 2
          /\ \A i \in 1..Len(body) : IsDigit(body[i]) \/ body[i] = "."
          /\ DigitsOnly(body) # <<>>
       THEN << signed /\ text[1] = "-",
               ToInt(DigitsOnly(body)),
               IF Len(parts) = 2 THEN Len(parts[2]) ELSE 0 >>
       ELSE <<>>

\* float(text) is an infinity or a NaN: an optional sign before "inf",
\* "infinity" or "nan" (the text is already in lower case)
NonFiniteFloat(text) ==
    LET signed == text # <<>> /\ text[1] \in {"+", "-"}
        body == IF signed THEN Tail(text) ELSE text
    IN body \in { <<"i","n","f">>, <<"i","n","f","i","n","i","t","y">>, <<"n","a","n">> }

\* round(x) for x = m / 10^d, m >= 0: to the nearest integer, a tie to the
\* even neighbour (Python 3 round)
RoundHalfEven(m, d) ==
    LET q == m \div Pow10(d)
        r == m % Pow10(d)
    IN IF 2 * r < Pow10(d) THEN q
       ELSE IF 2 * r > Pow10(d) THEN q + 1
       ELSE IF q % 2 = 0 THEN q ELSE q + 1

\* A seeded fault: every suffix multiplies by 1000.
SuffixExponentAllThousand(suffix) == 3

\* the power of ten the suffix multiplies by: 1000 for rb/ribu/k,
\* 1000000 for jt/juta
SuffixExponent(suffix) ==
    IF suffix \in { <<"r","b">>, <<"r","i","b","u">>, <<"k">> } THEN 3 ELSE 6

\* int(round(base_float * 10^e)) for base_float = (-1)^neg * m / 10^f
ScaleAndRound(neg, m, f, e) ==
    LET mag == IF f <= e THEN m * Pow10(e - f) ELSE RoundHalfEven(m, f - e)
    IN IF neg THEN 0 - mag ELSE mag

\* token.strip().lower() without "rp", "idr" and, after those, without spaces
CleanAmountToken(tok) ==
    Replace(Replace(Replace(ToLower(Strip(tok)), <<"r","p">>, <<>>), <<"i","d","r">>, <<>>),
            <<" ">>, <<>>)

parse_amount_token(tok) ==
    LET token_lower == CleanAmountToken(tok)
        hits == {i \in 1..Len(SUFFIX_CANDIDATES) :
                    EndsWith(token_lower, SUFFIX_CANDIDATES[i])}
        suffix == IF hits = {} THEN <<>> ELSE SUFFIX_CANDIDATES[Min(hits)]
        trimmed == Upto(token_lower, Len(token_lower) - Len(suffix))
        digits_only == DigitsOnly(trimmed)
        base_float == ParseFloat(Replace(trimmed, <<",">>, <<".">>))
    IN IF token_lower = <<>> THEN None
       ELSE IF trimmed = <<>> THEN None
       ELSE IF suffix = <<>>
            THEN IF digits_only = <<>> THEN None ELSE Some(ToInt(digits_only))
       ELSE IF base_float = <<>> THEN None
       ELSE Some(ScaleAndRound(base_float[1], base_float[2], base_float[3],
                               SuffixExponent(suffix)))

\* the call does not return: with a suffix, int(round(...)) of an infinity
\* raises OverflowError and of a NaN raises ValueError, outside the try block
\* (where this holds the value of parse_amount_token above is not used)
ParseAmountTokenRaises(tok) ==
    LET token_lower == CleanAmountToken(tok)
        hits == {i \in 1..Len(SUFFIX_CANDIDATES) :
                    EndsWith(token_lower, SUFFIX_CANDIDATES[i])}
        suffix == IF hits = {} THEN <<>> ELSE SUFFIX_CANDIDATES[Min(hits)]
        trimmed == Upto(token_lower, Len(token_lower) - Len(suffix))
    IN /\ suffix # <<>>
       /\ NonFiniteFloat(Replace(trimmed, <<",">>, <<".">>))

----------------------------------------------------------------------------
(* ocr.py: the money-token plausibility filter                             *)

\* A seeded fault: the plain-digit guard starts one digit too late.
LongPlainDigitsOffByOne(clean, has_suffix, has_currency, digits_only) ==
    /\ ~has_suffix
    /\ ~has_currency
    /\ ~Contains(clean, <<".">>)
    /\ ~Contains(clean, <<",">>)
    /\ Len(digits_only) > 8

\* the guard against PAN/reference/terminal ids
LongPlainDigits(clean, has_suffix, has_currency, digits_only) ==
    /\ ~has_suffix
    /\ ~has_currency
    /\ ~Contains(clean, <<".">>)
    /\ ~Contains(clean, <<",">>)
    /\ Len(digits_only) >= 8

\* the thousands-grouping check
BadGrouping(clean, has_suffix) ==
    /\ ~has_suffix
    /\ Contains(clean, <<".">>) \/ Contains(clean, <<",">>)
    /\ LET groups == Split(Replace(clean, <<",">>, <<".">>), ".")
       IN \/ Len(groups) > 5
          \/ /\ Len(groups) > 1
             /\ \E i \in 2..Len(groups) : Len(groups[i]) # 3

\* token.lower().strip() without spaces and, after those, without "rp.", "rp", "idr"
CleanMoneyToken(tok) ==
    Replace(Replace(Replace(Replace(Strip(ToLower(tok)), <<" ">>, <<>>),
                            <<"r","p",".">>, <<>>), <<"r","p">>, <<>>), <<"i","d","r">>, <<>>)

_is_plausible_money_token(tok) ==
    LET token_low == Strip(ToLower(tok))
        has_currency == Contains(token_low, <<"r","p">>) \/ Contains(token_low, <<"i","d","r">>)
        clean == CleanMoneyToken(tok)
        has_suffix == \E i \in 1..Len(SUFFIX_CANDIDATES) :
                          EndsWith(clean, SUFFIX_CANDIDATES[i])
        digits_only == DigitsOnly(clean)
    IN IF clean = <<>> THEN FALSE
       ELSE IF digits_only = <<>> THEN FALSE
       ELSE IF ~has_suffix /\ Len(digits_only) > 12 THEN FALSE
       ELSE IF LongPlainDigits(clean, has_suffix, has_currency, digits_only) THEN FALSE
       ELSE IF BadGrouping(clean, has_suffix) THEN FALSE
       ELSE TRUE

----------------------------------------------------------------------------
(* Bounded inputs of the token-level functions                             *)

TokMaxLen == 4

MaxGroups == 5

MaxDigits == 13

ShortAlphabet == {"1", "5", ".", ",", "-", "r", "p", "b", "k", " "}

StringsUpTo(A, n) == UNION {[1..k -> A] : k \in 0..n}

ShortTokens == StringsUpTo(ShortAlphabet, TokMaxLen)

Rep(c, n) == [i \in 1..n |-> c]

RECURSIVE Groups(_, _, _)
Groups(c, sep, n) == IF n = 0 THEN <<>> ELSE sep \o Rep(c, 3) \o Groups(c, sep, n - 1)

\* a digits, then n groups of three, then a last group of t digits (none for
\* t = 0), all separated by sep
Body(c, sep, a, n, t) ==
    Rep(c, a) \o Groups(c, sep, n) \o (IF t = 0 THEN <<>> ELSE sep \o Rep(c, t))

Prefixes == { <<>>, <<"r","p">>, <<"R","p"," ">>, <<"r","p",".">>, <<"I","D","R"," ">> }

Suffixes == { <<>>, <<"r","b">>, <<"r","i","b","u">>, <<"k">>, <<"j","t">>, <<"j","u","t","a">>, <<" ","r","b">>, <<"J","T">> }

ExampleTokens ==
    { <<"2","5","0","0","0">>, <<"2","5","r","b">>, <<"2",".","5","j","t">>, <<"R","p"," ","1",".","2","0","0",".","0","0","0">>, <<"-","5","r","b">>, <<"1",",","5","j","u","t","a">>,
      <<"0",".","0","0","0","5","k">>, <<"1",".","0","0","0","5","k">>, <<"1","2","3","4","5","6","7","8","9","0">>, <<"1","2"," ","r","i","b","u">>, <<"r","p">> }

\* bodies whose value fits the model's integers (at most 9 digits)
AmountBodies ==
    {Body(c, sep, a, n, t) : c \in {"0", "1", "5"}, sep \in { <<".">>, <<",">> },
                             a \in 1..3,
                             n \in {k \in 0..MaxGroups : k <= 2},
                             t \in {k \in 0..4 : k <= 4}}

AmountTokens ==
    ShortTokens \cup ExampleTokens \cup
    {p \o b \o s : p \in Prefixes, s \in Suffixes,
                   b \in {x \in AmountBodies : Len(DigitsOnly(x)) <= 9}}

PlausibleBodies ==
    {Body("1", sep, a, n, t) : sep \in { <<".">>, <<",">> }, a \in 1..4,
                               n \in 0..MaxGroups, t \in 0..4}
    \cup {Rep("1", n) : n \in 1..MaxDigits}

PlausibleTokens ==
    ShortTokens \cup ExampleTokens \cup
    {p \o b \o s : p \in Prefixes, s \in Suffixes, b \in PlausibleBodies}

----------------------------------------------------------------------------
(* The token-level calls                                                   *)

IdleToken == token = <<>> /\ amount = None /\ plausible = FALSE /\ tpc = "idle"

IdleOcr == ocr_input = <<>> /\ ocr = <<>> /\ opc = "idle"

IdleTotal == xt_lines = <<>> /\ xt_bank = FALSE /\ xt = <<>> /\ xpc = "idle"

IdleText == text_input = <<>> /\ text_frame = <<>> /\ ppc = "idle"

IdleShare == bill = <<>> /\ per_person = 0 /\ spc = "idle"

IdleChat == pending = <<>> /\ expenses = <<>> /\ reply = "idle"

InitAmount ==
    /\ token \in AmountTokens
    /\ amount = None
    /\ plausible = FALSE
    /\ tpc = "start"
    /\ IdleOcr
    /\ IdleTotal
    /\ IdleText
    /\ IdleShare
    /\ IdleChat

\* one call of parse_amount_token: it returns a value or raises
ParseAmountToken ==
    /\ tpc = "start"
    /\ IF ParseAmountTokenRaises(token)
       THEN amount' = amount /\ tpc' = "raised"
       ELSE amount' = parse_amount_token(token) /\ tpc' = "done"
    /\ UNCHANGED <<token, plausible>>
    /\ UNCHANGED <<ocrVars, totalVars, textVars, shareVars, chatVars>>

SpecAmount == InitAmount /\ [][ParseAmountToken]_vars

\* malformed tokens: letters, signs, dots and blanks around a digit
MalformedAlphabet == {"1", ".", "-", " ", "k", "i", "n", "f", "a"}

MalformedTokens == StringsUpTo(MalformedAlphabet, TokMaxLen)

InitMalformed ==
    /\ token \in MalformedTokens
    /\ amount = None
    /\ plausible = FALSE
    /\ tpc = "start"
    /\ IdleOcr
    /\ IdleTotal
    /\ IdleText
    /\ IdleShare
    /\ IdleChat

SpecMalformed == InitMalformed /\ [][ParseAmountToken]_vars

InitPlausible ==
    /\ token \in PlausibleTokens
    /\ amount = None
    /\ plausible = FALSE
    /\ tpc = "start"
    /\ IdleOcr
    /\ IdleTotal
    /\ IdleText
    /\ IdleShare
    /\ IdleChat

IsPlausibleMoneyToken ==
    /\ tpc = "start"
    /\ plausible' = _is_plausible_money_token(token)
    /\ tpc' = "done"
    /\ UNCHANGED <<token, amount>>
    /\ UNCHANGED <<ocrVars, totalVars, textVars, shareVars, chatVars>>

SpecPlausible == InitPlausible /\ [][IsPlausibleMoneyToken]_vars

----------------------------------------------------------------------------
(* parser.py: the category classifier                                      *)

\* CATEGORY_KEYWORDS in declaration order: <<category, keywords>>
CATEGORY_KEYWORDS ==
    << << <<"M","a","k","a","n","a","n"," ","&"," ","M","i","n","u","m","a","n">>,
          << <<"k","o","p","i">>, <<"m","a","k","a","n">>, <<"m","i","n","u","m">>, <<"r","e","s","t","o">>, <<"w","a","r","u","n","g">>, <<"g","o","f","o","o","d">>,
             <<"g","r","a","b","f","o","o","d">>, <<"s","n","a","c","k">>, <<"j","a","j","a","n">> >> >>,
       << <<"T","r","a","n","s","p","o","r","t","a","s","i">>,
          << <<"b","e","n","s","i","n">>, <<"b","b","m">>, <<"p","a","r","k","i","r">>, <<"t","o","l">>, <<"g","o","j","e","k">>, <<"g","o","c","a","r">>,
             <<"g","r","a","b">>, <<"k","e","r","e","t","a">>, <<"b","u","s">>, <<"o","j","e","k">> >> >>,
       << <<"B","e","l","a","n","j","a">>,
          << <<"b","e","l","a","n","j","a">>, <<"i","n","d","o","m","a","r","e","t">>, <<"a","l","f","a","m","a","r","t">>, <<"s","u","p","e","r","m","a","r","k","e","t">>, <<"s","h","o","p","e","e">>,
             <<"t","o","k","o","p","e","d","i","a">>, <<"l","a","z","a","d","a">>, <<"p","a","k","a","i","a","n">>, <<"s","e","p","a","t","u">> >> >>,
       << <<"T","a","g","i","h","a","n">>,
          << <<"l","i","s","t","r","i","k">>, <<"p","l","n">>, <<"a","i","r">>, <<"i","n","t","e","r","n","e","t">>, <<"w","i","f","i">>, <<"p","u","l","s","a">>,
             <<"p","a","k","e","t"," ","d","a","t","a">>, <<"t","o","k","e","n">>, <<"b","p","j","s">> >> >>,
       << <<"H","i","b","u","r","a","n">>,
          << <<"n","o","n","t","o","n">>, <<"b","i","o","s","k","o","p">>, <<"n","e","t","f","l","i","x">>, <<"s","p","o","t","i","f","y">>, <<"g","a","m","e">>, <<"s","t","e","a","m">>,
             <<"r","e","k","r","e","a","s","i">> >> >>,
       << <<"K","e","s","e","h","a","t","a","n">>,
          << <<"d","o","k","t","e","r">>, <<"o","b","a","t">>, <<"k","l","i","n","i","k">>, <<"a","p","o","t","e","k">>, <<"v","i","t","a","m","i","n">>,
             <<"r","u","m","a","h"," ","s","a","k","i","t">> >> >>,
       << <<"P","e","n","d","i","d","i","k","a","n">>,
          << <<"k","u","r","s","u","s">>, <<"b","u","k","u">>, <<"s","e","k","o","l","a","h">>, <<"k","u","l","i","a","h">>, <<"p","e","l","a","t","i","h","a","n">> >> >> >>

\* any(hint in text for hint in hints), hints a sequence
ContainsAny(text, hints) == \E i \in 1..Len(hints) : Contains(text, hints[i])

InferCategoryLast(item_text) ==
    LET low == ToLower(item_text)
        hits == {i \in 1..Len(CATEGORY_KEYWORDS) :
                    ContainsAny(low, CATEGORY_KEYWORDS[i][2])}
    IN IF hits = {} THEN <<"L","a","i","n","n","y","a">> ELSE CATEGORY_KEYWORDS[Max(hits)][1]

infer_category(item_text) ==
    LET low == ToLower(item_text)
        hits == {i \in 1..Len(CATEGORY_KEYWORDS) :
                    ContainsAny(low, CATEGORY_KEYWORDS[i][2])}
    IN IF hits = {} THEN <<"L","a","i","n","n","y","a">> ELSE CATEGORY_KEYWORDS[Min(hits)][1]

----------------------------------------------------------------------------
(* ocr.py: constants                                                       *)

TOTAL_KEYWORDS ==
    << <<"g","r","a","n","d"," ","t","o","t","a","l">>, <<"t","o","t","a","l"," ","b","a","y","a","r">>, <<"a","m","o","u","n","t"," ","d","u","e">>, <<"n","e","t","t","o">>, <<"j","u","m","l","a","h">>,
       <<"t","o","t","a","l">> >>

BANK_TOTAL_KEYWORDS ==
    << <<"t","o","t","a","l"," ","a","m","o","u","n","t">>, <<"j","u","m","l","a","h"," ","t","r","a","n","s","f","e","r">>, <<"n","o","m","i","n","a","l"," ","t","r","a","n","s","f","e","r">>,
       <<"t","r","a","n","s","f","e","r"," ","a","m","o","u","n","t">>, <<"d","e","b","i","t"," ","a","m","o","u","n","t">>, <<"n","o","m","i","n","a","l">>, <<"t","o","t","a","l"," ","d","e","b","i","t">> >>

IGNORE_TOTAL_HINTS ==
    << <<"p","p","n">>, <<"t","a","x">>, <<"p","a","j","a","k">>, <<"s","e","r","v","i","c","e">>, <<"c","h","a","n","g","e">>, <<"k","e","m","b","a","l","i","a","n">>,
       <<"p","a","y","m","e","n","t">>, <<"p","a","i","d">>, <<"d","e","b","i","t">>, <<"c","r","e","d","i","t">>, <<"c","a","s","h">>, <<"t","u","n","a","i">>,
       <<"d","i","s","k","o","n">>, <<"d","i","s","c","o","u","n","t">>, <<"a","d","m","i","n">>, <<"s","u","b","t","o","t","a","l">>, <<"s","u","b"," ","t","o","t","a","l">>,
       <<"s","a","l","d","o">>, <<"b","a","l","a","n","c","e">>, <<"a","v","a","i","l","a","b","l","e">>, <<"f","e","e">>, <<"p","a","n">>, <<"t","e","r","m","i","n","a","l"," ","i","d">>,
       <<"r","e","f","e","r","e","n","c","e"," ","n","o">>, <<"r","e","f","e","r","e","n","c","e">>, <<"r","e","f">> >>

MERCHANT_SKIP_HINTS ==
    << <<"s","t","r","u","k">>, <<"r","e","c","e","i","p","t">>, <<"i","n","v","o","i","c","e">>, <<"t","a","n","g","g","a","l">>, <<"d","a","t","e">>, <<"t","a","b","l","e">>,
       <<"c","a","s","h","i","e","r">>, <<"n","o",".">>, <<"t","e","l","p">>, <<"p","h","o","n","e">> >>

BANK_HINTS ==
    << <<"b","a","n","k">>, <<"r","e","k","e","n","i","n","g">>, <<"n","o"," ","r","e","k">>, <<"a","c","c","o","u","n","t">>, <<"t","r","a","n","s","f","e","r">>,
       <<"r","e","c","i","p","i","e","n","t">>, <<"v","a"," ">>, <<"v","i","r","t","u","a","l"," ","a","c","c","o","u","n","t">>, <<"m","-","b","a","n","k","i","n","g">>,
       <<"m","o","b","i","l","e"," ","b","a","n","k","i","n","g">>, <<"i","n","t","e","r","n","e","t"," ","b","a","n","k","i","n","g">>, <<"d","e","b","i","t">>, <<"k","r","e","d","i","t">>, <<"q","r","i","s">>,
       <<"t","r","x">>, <<"r","e","f">> >>

BANK_NAMES ==
    << <<"b","c","a">>, <<"b","r","i">>, <<"b","n","i">>, <<"m","a","n","d","i","r","i">>, <<"p","e","r","m","a","t","a">>, <<"c","i","m","b">>, <<"d","a","n","a","m","o","n">>,
       <<"o","c","b","c">>, <<"d","b","s">>, <<"j","a","g","o">>, <<"b","l","u">>, <<"s","e","a","b","a","n","k">>, <<"m","a","y","b","a","n","k">> >>

\* the context keywords of _detect_bank_transaction
BANK_CONTEXT ==
    << <<"t","r","a","n","s","f","e","r">>, <<"p","e","n","e","r","i","m","a">>, <<"r","e","c","i","p","i","e","n","t">>, <<"b","e","n","e","f","i","c","i","a","r","y">>, <<"r","e","c","e","i","v","e","r">>,
       <<"r","e","k","e","n","i","n","g">>, <<"a","c","c","o","u","n","t">>, <<"n","o","m","i","n","a","l">>, <<"d","e","b","i","t">>, <<"s","a","l","d","o">>, <<"r","e","f">>,
       <<"t","r","x">>, <<"q","r","i","s">> >>

\* MERCHANT_CATEGORY_OVERRIDES in insertion order: <<key, category>>
MERCHANT_CATEGORY_OVERRIDES ==
    << << <<"a","l","f","a","m","a","r","t">>, <<"B","e","l","a","n","j","a"," ","B","u","l","a","n","a","n">> >>,
       << <<"i","n","d","o","m","a","r","e","t">>, <<"B","e","l","a","n","j","a"," ","B","u","l","a","n","a","n">> >>,
       << <<"s","u","p","e","r","i","n","d","o">>, <<"B","e","l","a","n","j","a"," ","B","u","l","a","n","a","n">> >>,
       << <<"h","y","p","e","r","m","a","r","t">>, <<"B","e","l","a","n","j","a"," ","B","u","l","a","n","a","n">> >>,
       << <<"s","t","a","r","b","u","c","k","s">>, <<"K","o","p","i","/","S","n","a","c","k">> >>,
       << <<"k","o","p","i"," ","k","e","n","a","n","g","a","n">>, <<"K","o","p","i","/","S","n","a","c","k">> >>,
       << <<"j","a","n","j","i"," ","j","i","w","a">>, <<"K","o","p","i","/","S","n","a","c","k">> >>,
       << <<"f","o","r","e">>, <<"K","o","p","i","/","S","n","a","c","k">> >>,
       << <<"m","c","d">>, <<"M","a","k","a","n","a","n"," ","&"," ","M","i","n","u","m","a","n">> >>,
       << <<"k","f","c">>, <<"M","a","k","a","n","a","n"," ","&"," ","M","i","n","u","m","a","n">> >>,
       << <<"b","u","r","g","e","r"," ","k","i","n","g">>, <<"M","a","k","a","n","a","n"," ","&"," ","M","i","n","u","m","a","n">> >> >>

\* the alternatives of cut_labels_re
CUT_LABELS ==
    << <<"s","o","u","r","c","e"," ","o","f"," ","f","u","n","d">>, <<"q","r","i","s"," ","r","e","f","e","r","e","n","c","e">>, <<"r","e","f","e","r","e","n","c","e">>, <<"r","e","f"," ","n","o">>,
       <<"m","e","r","c","h","a","n","t"," ","p","a","n">>, <<"c","u","s","t","o","m","e","r"," ","p","a","n">>, <<"t","e","r","m","i","n","a","l"," ","i","d">>, <<"a","c","q","u","i","r","e","r">>,
       <<"s","a","l","d","o">>, <<"b","a","l","a","n","c","e">>, <<"a","v","a","i","l","a","b","l","e">>, <<"f","e","e">>, <<"a","d","m","i","n">> >>

\* the month alternatives of DATE_WORD_RE
MONTH_WORDS ==
    << <<"j","a","n">>, <<"f","e","b">>, <<"m","a","r">>, <<"a","p","r">>, <<"m","e","i">>, <<"m","a","y">>, <<"j","u","n">>, <<"j","u","l">>,
       <<"a","g","u">>, <<"a","u","g">>, <<"s","e","p">>, <<"o","k","t">>, <<"o","c","t">>, <<"n","o","v">>, <<"d","e","s">>, <<"d","e","c">> >>

\* the suffix alternatives of MONEY_TOKEN_RE, in the pattern's order
MONEY_SUFFIXES == << <<"r","b">>, <<"r","i","b","u">>, <<"k">>, <<"j","t">>, <<"j","u","t","a">> >>

RECIPIENT_LABELS ==
    << <<"p","e","n","e","r","i","m","a">>, <<"r","e","c","i","p","i","e","n","t">>, <<"r","e","c","e","i","v","e","r">>, <<"b","e","n","e","f","i","c","i","a","r","y">>, <<"t","u","j","u","a","n">>,
       <<"k","e","p","a","d","a">>, <<"n","a","m","a"," ","p","e","n","e","r","i","m","a">>, <<"n","a","m","a"," ","t","u","j","u","a","n">> >>

\* the label alternatives of the inline "label: value" pattern
INLINE_LABELS ==
    << <<"p","e","n","e","r","i","m","a">>, <<"r","e","c","i","p","i","e","n","t">>, <<"r","e","c","e","i","v","e","r">>, <<"b","e","n","e","f","i","c","i","a","r","y">>, <<"t","u","j","u","a","n">>,
       <<"k","e","p","a","d","a">> >>

INVALID_HINTS == << <<"p","a","n">>, <<"r","e","f">>, <<"t","e","r","m","i","n","a","l">>, <<"i","d">>, <<"r","e","k","e","n","i","n","g">>, <<"a","c","c","o","u","n","t">> >>

MIN_TOTAL == 1000

MIN_AMOUNT == 100

MAX_AMOUNT == 2000000000

----------------------------------------------------------------------------
(* ocr.py: regular expressions, matched as the re module matches them      *)

WordAt(s, i) == i >= 1 /\ i <= Len(s) /\ IsWord(s[i])

\* \b in front of the character at position p, p in 1..Len(s)+1
Boundary(s, p) == WordAt(s, p - 1) # WordAt(s, p)

DigitAt(s, i) == i >= 1 /\ i <= Len(s) /\ IsDigit(s[i])

\* a greedy \s*: the first position from i on that holds no whitespace
RECURSIVE SkipSpaces(_, _)
SkipSpaces(s, i) ==
    IF i <= Len(s) /\ IsSpace(s[i]) THEN SkipSpaces(s, i + 1) ELSE i

\* a literal matched under (?i) at position i; p is lower-case
StartsWithAtCI(s, i, p) ==
    /\ i >= 1
    /\ i + Len(p) - 1 <= Len(s)
    /\ LowerChar(s[i]) = p[1]
    /\ ToLower(SubSeq(s, i, i + Len(p) - 1)) = p

\* MONEY_TOKEN_RE, the prefix (?:rp\.?\s*|idr\s*)? followed by \d: the
\* position of that digit for a match starting at i, 0 if there is none
MoneyDigitStart(s, i) ==
    LET afterRp == SkipSpaces(s, IF i + 2 <= Len(s) /\ s[i + 2] = "." THEN i + 3 ELSE i + 2)
        afterIdr == SkipSpaces(s, i + 3)
    IN IF StartsWithAtCI(s, i, <<"r","p">>) /\ DigitAt(s, afterRp) THEN afterRp
       ELSE IF StartsWithAtCI(s, i, <<"i","d","r">>) /\ DigitAt(s, afterIdr) THEN afterIdr
       ELSE IF DigitAt(s, i) THEN i
       ELSE 0

\* the last position of the greedy [\d.,]* after the digit at ds
RECURSIVE RunEnd(_, _)
RunEnd(s, r) ==
    IF r + 1 <= Len(s) /\ (IsDigit(s[r + 1]) \/ s[r + 1] \in {".", ","})
    THEN RunEnd(s, r + 1) ELSE r

\* (?:\s*(?:rb|ribu|k|jt|juta)\b)? after position r: the last position of the
\* suffix, 0 if the group does not match
SuffixEnd(s, r) ==
    LET p == SkipSpaces(s, r + 1)
        hits == {k \in 1..Len(MONEY_SUFFIXES) :
                    /\ StartsWithAtCI(s, p, MONEY_SUFFIXES[k])
                    /\ Boundary(s, p + Len(MONEY_SUFFIXES[k]))}
    IN IF hits = {} THEN 0 ELSE p + Len(MONEY_SUFFIXES[Min(hits)]) - 1

\* the end of the match whose digits start at ds, backtracking the run from
\* its longest extent r down to ds; 0 if no extent lets the pattern finish
RECURSIVE MoneyEnd(_, _, _)
MoneyEnd(s, ds, r) ==
    IF r < ds THEN 0
    ELSE IF SuffixEnd(s, r) # 0 THEN SuffixEnd(s, r)
    ELSE IF Boundary(s, r + 1) THEN r
    ELSE MoneyEnd(s, ds, r - 1)

\* the end of the MONEY_TOKEN_RE match that starts at i, 0 if none starts there
MoneyMatchEnd(s, i) ==
    LET ds == MoneyDigitStart(s, i)
    IN IF Boundary(s, i) /\ ds # 0 THEN MoneyEnd(s, ds, RunEnd(s, ds)) ELSE 0

\* [m.group(0) for m in MONEY_TOKEN_RE.finditer(s)], scanning from i
RECURSIVE MoneyTokens(_, _)
MoneyTokens(s, i) ==
    IF i > Len(s) THEN <<>>
    ELSE LET e == MoneyMatchEnd(s, i)
         IN IF e # 0 THEN <<SubSeq(s, i, e)>> \o MoneyTokens(s, e + 1)
            ELSE MoneyTokens(s, i + 1)

\* cut_labels_re.search(segment).start() + 1, 0 if there is no match
CutStart(segment) ==
    LET starts == {i \in 1..Len(segment) :
                      /\ Boundary(segment, i)
                      /\ \E k \in 1..Len(CUT_LABELS) :
                            /\ StartsWithAtCI(segment, i, CUT_LABELS[k])
                            /\ Boundary(segment, i + Len(CUT_LABELS[k]))}
    IN IF starts = {} THEN 0 ELSE Min(starts)

\* the end of the greedy \d{lo,hi} at i that a following test accepts
DigitRun(s, i) == Cardinality({k \in 0..3 : \A j \in 0..k : DigitAt(s, i + j)})

IsDateSep(s, i) == i >= 1 /\ i <= Len(s) /\ s[i] \in {"/", "-"}

\* DATE_RE: the end of \b(\d{1,2}[/-]\d{1,2}[/-]\d{2,4})\b starting at i, 0 if none
DateMatchEnd(s, i) ==
    LET n1 == DigitRun(s, i)
        j == i + (IF n1 >= 2 /\ IsDateSep(s, i + 2) THEN 2 ELSE 1)
        n2 == DigitRun(s, j + 1)
        k == j + 1 + (IF n2 >= 2 /\ IsDateSep(s, j + 3) THEN 2 ELSE 1)
        n3 == DigitRun(s, k + 1)
        ends == {e \in (k + 2)..(k + 4) : e - k <= n3 /\ Boundary(s, e + 1)}
    IN IF /\ Boundary(s, i) /\ n1 >= 1 /\ IsDateSep(s, j)
          /\ n2 >= 1 /\ IsDateSep(s, k) /\ ends # {}
       THEN Max(ends) ELSE 0

\* the first position from i on that holds no letter ([a-z]* under re.I)
RECURSIVE SkipLetters(_, _)
SkipLetters(s, i) ==
    IF i <= Len(s) /\ IsAlpha(s[i]) THEN SkipLetters(s, i + 1) ELSE i

\* DATE_WORD_RE: the end of the match starting at i, 0 if none
DateWordMatchEnd(s, i) ==
    LET n1 == DigitRun(s, i)
        d == IF n1 >= 2 /\ i + 2 <= Len(s) /\ IsSpace(s[i + 2]) THEN 2 ELSE 1
        m == SkipSpaces(s, i + d)
        w == SkipLetters(s, m + 3)
        y == SkipSpaces(s, w)
        n3 == DigitRun(s, y)
        ends == {e \in (y + 1)..(y + 3) : e - y + 1 <= n3 /\ Boundary(s, e + 1)}
    IN IF /\ Boundary(s, i) /\ n1 >= 1
          /\ m > i + d
          /\ \E q \in 1..Len(MONTH_WORDS) : StartsWithAtCI(s, m, MONTH_WORDS[q])
          /\ y > w
          /\ ends # {}
       THEN Max(ends) ELSE 0

\* the date_text of extract_receipt_data: group 1 of DATE_RE.search, else of
\* DATE_WORD_RE.search, else "-"
DateText(raw_text) ==
    LET ds == {i \in 1..Len(raw_text) : DateMatchEnd(raw_text, i) # 0}
        ws == {i \in 1..Len(raw_text) : DateWordMatchEnd(raw_text, i) # 0}
    IN IF ds # {} THEN SubSeq(raw_text, Min(ds), DateMatchEnd(raw_text, Min(ds)))
       ELSE IF ws # {} THEN SubSeq(raw_text, Min(ws), DateWordMatchEnd(raw_text, Min(ws)))
       ELSE <<"-">>

\* one character outside ASCII whose title case is two characters: U+01F0,
\* LATIN SMALL LETTER J WITH CARON, becomes "J" and U+030C, COMBINING CARON;
\* lower() leaves both as they are, and only U+01F0 is a cased character
JCaron == "U+01F0"

CombiningCaron == "U+030C"

\* str.title(): a character after a cased character is lower-cased, any
\* other character is title-cased
RECURSIVE TitleFrom(_, _)
TitleFrom(s, previous_is_cased) ==
    IF s = <<>> THEN <<>>
    ELSE (IF previous_is_cased THEN <<LowerChar(Head(s))>>
          ELSE IF Head(s) = JCaron THEN <<"J", CombiningCaron>>
          ELSE <<UpperChar(Head(s))>>)
         \o TitleFrom(Tail(s), IsAlpha(Head(s)) \/ Head(s) = JCaron)

Title(s) == TitleFrom(s, FALSE)

\* str.upper()
ToUpper(s) == [i \in 1..Len(s) |-> UpperChar(s[i])]

\* sum(1 for c in s if c is of the class)
CountChars(s, class) == Cardinality({i \in 1..Len(s) : s[i] \in class})

----------------------------------------------------------------------------
(* ocr.py: the extraction pipeline                                         *)

\* re.sub(r"\s+", " ", line)
RECURSIVE CollapseSpaces(_)
CollapseSpaces(s) ==
    IF s = <<>> THEN <<>>
    ELSE IF IsSpace(Head(s)) THEN <<" ">> \o CollapseSpaces(LStrip(s))
    ELSE <<Head(s)>> \o CollapseSpaces(Tail(s))

\* str.splitlines() on "\n"
SplitLines(text) ==
    LET parts == Split(text, "\n")
    IN IF parts[Len(parts)] = <<>> THEN Upto(parts, Len(parts) - 1) ELSE parts

NonBlank(line) == Strip(line) # <<>>

NormalizeLine(line) == Strip(CollapseSpaces(line))

_normalize_lines(input) ==
    LET raw_lines == IF input.kind = "str" THEN SplitLines(input.text) ELSE input.lines
        kept == SelectSeq(raw_lines, NonBlank)
    IN [i \in 1..Len(kept) |-> NormalizeLine(kept[i])]

\* the amounts of the plausible tokens, in the order of the tokens
RECURSIVE AmountsOf(_)
AmountsOf(tokens) ==
    IF tokens = <<>> THEN <<>>
    ELSE LET parsed == IF _is_plausible_money_token(Head(tokens))
                       THEN parse_amount_token(Head(tokens)) ELSE None
         IN (IF parsed # None /\ MIN_AMOUNT <= parsed[1] /\ parsed[1] <= MAX_AMOUNT
             THEN <<parsed[1]>> ELSE <<>>) \o AmountsOf(Tail(tokens))

_extract_amounts(text) == AmountsOf(MoneyTokens(text, 1))

\* A seeded fault: a bank name alone classifies the text as a bank
\* transaction.
DetectBankByNameAlone(lines) ==
    LET joined == ToLower(Join(lines, <<" ">>))
        score == Cardinality({i \in 1..Len(BANK_HINTS) : Contains(joined, BANK_HINTS[i])})
    IN ContainsAny(joined, BANK_NAMES) \/ score >= 2

_detect_bank_transaction(lines) ==
    LET joined == ToLower(Join(lines, <<" ">>))
        has_bank_name == ContainsAny(joined, BANK_NAMES)
        has_bank_context == ContainsAny(joined, BANK_CONTEXT)
        score == Cardinality({i \in 1..Len(BANK_HINTS) : Contains(joined, BANK_HINTS[i])})
    IN (has_bank_name /\ has_bank_context) \/ score >= 2

\* the loop of _pick_merchant over first_lines from position k on
RECURSIVE PickMerchantFrom(_, _, _, _)
PickMerchantFrom(first_lines, k, best_score, merchant) ==
    IF k > Len(first_lines) THEN merchant
    ELSE LET line == first_lines[k]
             low == ToLower(line)
             letters == CountChars(line, LowerLetters \cup UpperLetters)
             digits == CountChars(line, Digits)
             score == letters - (digits * 2) - (IF Contains(low, <<"r","p">>) THEN 8 ELSE 0)
         IN IF ContainsAny(low, MERCHANT_SKIP_HINTS)
            THEN PickMerchantFrom(first_lines, k + 1, best_score, merchant)
            ELSE IF score > best_score /\ letters >= 3
                 THEN PickMerchantFrom(first_lines, k + 1, score, Title(line))
                 ELSE PickMerchantFrom(first_lines, k + 1, best_score, merchant)

_pick_merchant(lines) ==
    PickMerchantFrom(SubSeq(lines, 1, IF Len(lines) < 3 THEN Len(lines) ELSE 3), 1,
                     0 - 999, <<"M","e","r","c","h","a","n","t"," ","t","i","d","a","k"," ","d","i","k","e","t","a","h","u","i">>)

\* the inline "label: value" pattern: <<group 1>> of the leftmost match,
\* <<>> when the pattern does not match the line
InlineCapture(line) ==
    LET SepPos(i, k) == SkipSpaces(line, i + Len(INLINE_LABELS[k]))
        Matches(i, k) ==
            /\ StartsWithAtCI(line, i, INLINE_LABELS[k])
            /\ SepPos(i, k) < Len(line)
            /\ line[SepPos(i, k)] \in {":", "=", "-"}
        starts == {i \in 1..Len(line) : \E k \in 1..Len(INLINE_LABELS) : Matches(i, k)}
    IN IF starts = {} THEN <<>>
       ELSE LET i == Min(starts)
                k == CHOOSE x \in 1..Len(INLINE_LABELS) : Matches(i, x)
                v == SkipSpaces(line, SepPos(i, k) + 1)
            IN IF v <= Len(line) THEN <<SubSeq(line, v, Len(line))>>
               ELSE <<SubSeq(line, Len(line), Len(line))>>

\* the candidate of a recipient-label line: the inline capture, else the next line
BankCandidate(lines, idx) ==
    LET inline_match == InlineCapture(lines[idx])
    IN IF inline_match # <<>> THEN Strip(inline_match[1])
       ELSE IF idx + 1 <= Len(lines) THEN Strip(lines[idx + 1])
       ELSE <<>>

\* A seeded fault: a candidate of which exactly four tenths are digits is
\* accepted.
AcceptableRecipientLoose(candidate) ==
    /\ Len(candidate) >= 3
    /\ ~ContainsAny(ToLower(candidate), INVALID_HINTS)
    /\ CountChars(candidate, Digits) * 10 <= 4 * (IF Len(candidate) > 1 THEN Len(candidate) ELSE 1)

AcceptableRecipient(candidate) ==
    /\ Len(candidate) >= 3
    /\ ~ContainsAny(ToLower(candidate), INVALID_HINTS)
    /\ CountChars(candidate, Digits) * 10 < 4 * (IF Len(candidate) > 1 THEN Len(candidate) ELSE 1)

_pick_bank_merchant(lines) ==
    LET labelled == {idx \in 1..Len(lines) :
                        /\ ContainsAny(ToLower(lines[idx]), RECIPIENT_LABELS)
                        /\ AcceptableRecipient(BankCandidate(lines, idx))}
        named == {<<n, b>> \in (1..(IF Len(lines) < 6 THEN Len(lines) ELSE 6))
                                 \X (1..Len(BANK_NAMES)) :
                     Contains(ToLower(lines[n]), BANK_NAMES[b])}
    IN IF labelled # {} THEN Title(BankCandidate(lines, Min(labelled)))
       ELSE IF named # {}
            THEN LET n == Min({p[1] : p \in named})
                     b == Min({p[2] : p \in {q \in named : q[1] = n}})
                 IN <<"T","r","a","n","s","f","e","r"," ">> \o ToUpper(BANK_NAMES[b])
       ELSE <<"T","r","a","n","s","a","k","s","i"," ","B","a","n","k">>

\* A seeded fault: the free-text default leaks into receipts.
PickCategoryLeaksDefault(merchant, lines) ==
    LET hits == {i \in 1..Len(MERCHANT_CATEGORY_OVERRIDES) :
                    Contains(ToLower(merchant), MERCHANT_CATEGORY_OVERRIDES[i][1])}
    IN IF hits # {} THEN MERCHANT_CATEGORY_OVERRIDES[Min(hits)][2]
       ELSE infer_category(merchant \o <<" ">> \o Join(lines, <<" ">>))

_pick_category(merchant, lines) ==
    LET merchant_low == ToLower(merchant)
        hits == {i \in 1..Len(MERCHANT_CATEGORY_OVERRIDES) :
                    Contains(merchant_low, MERCHANT_CATEGORY_OVERRIDES[i][1])}
        infer_from_text == infer_category(merchant \o <<" ">> \o Join(lines, <<" ">>))
    IN IF hits # {} THEN MERCHANT_CATEGORY_OVERRIDES[Min(hits)][2]
       ELSE IF infer_from_text # <<"L","a","i","n","n","y","a">> THEN infer_from_text
       ELSE <<"B","e","l","a","n","j","a"," ","L","a","i","n","n","y","a">>

\* BANK_TOTAL_KEYWORDS + TOTAL_KEYWORDS in bank mode, TOTAL_KEYWORDS otherwise
KeywordsFor(is_bank_transaction) ==
    IF is_bank_transaction THEN BANK_TOTAL_KEYWORDS \o TOTAL_KEYWORDS ELSE TOTAL_KEYWORDS

\* A seeded fault: the text after the keyword is not cut at the stop label.
KeywordSegmentUncut(line, keyword) ==
    From(line, Find(ToLower(line), keyword) + Len(keyword))

\* the text after the keyword's first occurrence, cut at the first stop label
KeywordSegment(line, keyword) ==
    LET segment == From(line, Find(ToLower(line), keyword) + Len(keyword))
        cut == CutStart(segment)
    IN IF cut = 0 THEN segment ELSE Upto(segment, cut - 1)

\* amounts[0] if the list is not empty, as a list of at most one element
FirstAmount(amounts) == IF amounts # <<>> THEN <<amounts[1]>> ELSE <<>>

\* one pass of the inner loop: <<amounts[0]>> when the line contains the
\* keyword and its segment holds an amount, <<>> otherwise
InlineCandidate(line, keyword) ==
    FirstAmount(IF Contains(ToLower(line), keyword)
                THEN _extract_amounts(KeywordSegment(line, keyword))
                ELSE <<>>)

\* the inner loop over the keywords, from the k-th on
RECURSIVE InlineAmounts(_, _, _)
InlineAmounts(line, keywords, k) ==
    IF k > Len(keywords) THEN <<>>
    ELSE InlineCandidate(line, keywords[k]) \o InlineAmounts(line, keywords, k + 1)

\* A seeded fault: the line after a keyword line is taken whatever it holds.
NextLineAmountsUnfiltered(lines, idx) ==
    IF idx + 1 <= Len(lines)
    THEN FirstAmount(_extract_amounts(lines[idx + 1]))
    ELSE <<>>

\* the candidate taken from the line after a keyword line without inline amount
NextLineAmounts(lines, idx) ==
    IF idx + 1 <= Len(lines) /\ ~ContainsAny(ToLower(lines[idx + 1]), IGNORE_TOTAL_HINTS)
    THEN FirstAmount(_extract_amounts(lines[idx + 1]))
    ELSE <<>>

\* what a pass over a keyword line appends: the inline candidates, or the
\* next line's candidate when found_inline stayed False
KeywordLinePass(inline, next_line) ==
    [inline |-> inline, appended |-> IF inline # <<>> THEN inline ELSE next_line]

\* A seeded fault: subtotal lines are read like any keyword line.
LineKeywordAmountsWithSubtotal(lines, idx, keywords) ==
    IF ~ContainsAny(ToLower(lines[idx]), keywords)
    THEN [inline |-> <<>>, appended |-> <<>>]
    ELSE KeywordLinePass(InlineAmounts(lines[idx], keywords, 1), NextLineAmounts(lines, idx))

\* one pass of the outer loop: the candidates found inline on the line and
\* what the pass appends to keyword_amounts
LineKeywordAmounts(lines, idx, keywords) ==
    IF \/ Contains(ToLower(lines[idx]), <<"s","u","b","t","o","t","a","l">>)
       \/ Contains(ToLower(lines[idx]), <<"s","u","b"," ","t","o","t","a","l">>)
       \/ ~ContainsAny(ToLower(lines[idx]), keywords)
    THEN [inline |-> <<>>, appended |-> <<>>]
    ELSE KeywordLinePass(InlineAmounts(lines[idx], keywords, 1), NextLineAmounts(lines, idx))

\* the passes of the outer loop, from line idx on
RECURSIVE OuterLoop(_, _, _)
OuterLoop(lines, keywords, idx) ==
    IF idx > Len(lines) THEN <<>>
    ELSE <<LineKeywordAmounts(lines, idx, keywords)>> \o OuterLoop(lines, keywords, idx + 1)

\* per line, the candidates that were found inline
RECURSIVE InlineFound(_, _)
InlineFound(passes, idx) ==
    IF idx > Len(passes) THEN <<>>
    ELSE <<passes[idx].inline>> \o InlineFound(passes, idx + 1)

\* keyword_amounts after the passes from idx on
RECURSIVE KeywordAmounts(_, _)
KeywordAmounts(passes, idx) ==
    IF idx > Len(passes) THEN <<>>
    ELSE passes[idx].appended \o KeywordAmounts(passes, idx + 1)

\* A seeded fault: the fallback loop keeps the amounts below the minimum and
\* reads the lines with a hint.
RECURSIVE FallbackAmountsUnfiltered(_, _)
FallbackAmountsUnfiltered(lines, idx) ==
    IF idx > Len(lines) THEN <<>>
    ELSE _extract_amounts(lines[idx]) \o FallbackAmountsUnfiltered(lines, idx + 1)

\* all_amounts of the fallback loop, from line idx on
RECURSIVE FallbackAmounts(_, _)
FallbackAmounts(lines, idx) ==
    IF idx > Len(lines) THEN <<>>
    ELSE (IF ContainsAny(ToLower(lines[idx]), IGNORE_TOTAL_HINTS) THEN <<>>
          ELSE SelectSeq(_extract_amounts(lines[idx]), LAMBDA a : a >= MIN_TOTAL))
         \o FallbackAmounts(lines, idx + 1)

Leq(a, b) == a <= b

\* A seeded fault: the smallest candidate is taken.
MedianIndexFirst(n) == 0

\* A seeded fault: the lower of the two middle elements is taken.
MedianIndexLower(n) == (n - 1) \div 2

\* the 0-based index len(sorted_amounts) // 2
MedianIndex(n) == n \div 2

\* what _extract_total returns after the outer loop, with its locals; the
\* fallback loop runs only when the outer loop found no candidate
TotalFrame(passes, keyword_amounts, fallback_amounts) ==
    [inline |-> InlineFound(passes, 1),
     keyword_amounts |-> keyword_amounts,
     all_amounts |-> IF keyword_amounts # <<>> THEN <<>> ELSE fallback_amounts,
     total |-> IF keyword_amounts # <<>>
               THEN Some(SortSeq(keyword_amounts, Leq)[MedianIndex(Len(keyword_amounts)) + 1])
               ELSE IF fallback_amounts # <<>>
                    THEN Some(Max({fallback_amounts[i] : i \in 1..Len(fallback_amounts)}))
                    ELSE None,
     used_fallback_total |-> keyword_amounts = <<>> /\ fallback_amounts # <<>>]

PassesFrame(passes, fallback_amounts) ==
    TotalFrame(passes, KeywordAmounts(passes, 1), fallback_amounts)

\* the locals of _extract_total and the pair it returns
ExtractTotalFrame(lines, is_bank_transaction) ==
    PassesFrame(OuterLoop(lines, KeywordsFor(is_bank_transaction), 1),
                FallbackAmounts(lines, 1))

\* <<total, used_fallback_total>>
_extract_total(lines, is_bank_transaction) ==
    LET frame == ExtractTotalFrame(lines, is_bank_transaction)
    IN <<frame.total, frame.used_fallback_total>>

\* A seeded fault: the gate never looks at the fallback flag.
WeakFallbackIgnored(used_fallback_total, very_short, weak_text) == FALSE

\* weak_fallback
WeakFallback(used_fallback_total, very_short, weak_text) ==
    used_fallback_total /\ (very_short \/ weak_text)

\* ratio < 0.45 is compared as alnum * 100 < 45 * printable
_is_noisy(lines, tot, used_fallback_total) ==
    IF lines = <<>> THEN TRUE
    ELSE LET joined == Join(lines, <<" ">>)
             alnum_count == CountChars(joined, Digits \cup LowerLetters \cup UpperLetters)
             printable_count == Len(joined) - CountChars(joined, Spaces)
             very_short == Len(lines) <= 2
             no_total == tot = None \/ (tot # None /\ tot[1] < MIN_TOTAL)
             weak_text == IF printable_count # 0
                          THEN alnum_count * 100 < 45 * printable_count
                          ELSE TRUE
         IN no_total \/ WeakFallback(used_fallback_total, very_short, weak_text)

\* A seeded fault: the manual-confirmation result forgets its flag.
ManualResultUnflagged(raw_text) ==
    [raw_text |-> raw_text, receipt |-> <<>>,
     needs_manual_total_confirmation |-> FALSE, reply_text |-> "manual"]

\* the OCRResult of the noisy branch; reply_text is kept as a tag
ManualResult(raw_text) ==
    [raw_text |-> raw_text, receipt |-> <<>>,
     needs_manual_total_confirmation |-> TRUE, reply_text |-> "manual"]

\* the OCRResult of the structured branch; receipt is <<ReceiptExtraction>>
ReceiptResult(raw_text, lines, is_bank_transaction, tot, used_fallback_total) ==
    LET merchant == IF is_bank_transaction THEN _pick_bank_merchant(lines)
                    ELSE _pick_merchant(lines)
    IN [raw_text |-> raw_text,
        receipt |-> <<[merchant |-> merchant,
                       date_text |-> DateText(raw_text),
                       total |-> IF tot = None THEN 0 ELSE tot[1],
                       category |-> IF is_bank_transaction THEN <<"T","r","a","n","s","f","e","r","/","B","a","n","k">>
                                    ELSE _pick_category(merchant, lines),
                       used_fallback_total |-> used_fallback_total,
                       is_bank_transaction |-> is_bank_transaction]>>,
        needs_manual_total_confirmation |-> FALSE,
        reply_text |-> "confirmation"]

\* extract_receipt_data from the noise gate on
GatedFrame(lines, is_bank_transaction, extracted, is_noisy) ==
    [lines |-> lines,
     is_bank_transaction |-> is_bank_transaction,
     keyword_amounts |-> extracted.keyword_amounts,
     total |-> extracted.total,
     used_fallback |-> extracted.used_fallback_total,
     noisy |-> is_noisy,
     result |-> IF is_noisy THEN ManualResult(Join(lines, <<"\n">>))
                ELSE ReceiptResult(Join(lines, <<"\n">>), lines, is_bank_transaction,
                                   extracted.total, extracted.used_fallback_total)]

\* A seeded fault: the gate lets every extraction through.
TotalledFrameUngated(lines, is_bank_transaction, extracted) ==
    GatedFrame(lines, is_bank_transaction, extracted, FALSE)

\* extract_receipt_data from the total on
TotalledFrame(lines, is_bank_transaction, extracted) ==
    GatedFrame(lines, is_bank_transaction, extracted,
               _is_noisy(lines, extracted.total, extracted.used_fallback_total))

\* extract_receipt_data from the mode detection on
NormalizedFrame(lines, is_bank_transaction) ==
    TotalledFrame(lines, is_bank_transaction,
                  ExtractTotalFrame(lines, is_bank_transaction))

\* extract_receipt_data from the normalized lines on
LinesFrame(lines) == NormalizedFrame(lines, _detect_bank_transaction(lines))

\* the locals of extract_receipt_data and the OCRResult it returns
ExtractFrame(input) == LinesFrame(_normalize_lines(input))

extract_receipt_data(input) == ExtractFrame(input).result

----------------------------------------------------------------------------
(* Bounded inputs of extract_receipt_data and _extract_total               *)

MaxLines == 3

\* raw OCR lines: keyword totals above and below the gate's minimum, garbled
\* text with a number, a keyword total buried in noise, merchants with a
\* date, a bank slip and its recipient, a blank line
OcrLinePool ==
    { <<"T","O","T","A","L"," ","R","p"," ","5","0",".","0","0","0">>,
      <<"t","o","t","a","l"," ","5","0","0">>,
      <<"#","@","!","%"," ","7","5","0","0","0"," ","~","~","*","*">>,
      <<"t","o","t","a","l"," ","4","8","0","0","0"," ","!","!","!","!","!","!","!","!","!","!","!","!","!","!","!","!","!","!">>,
      <<"K","o","p","i"," ","K","e","n","a","n","g","a","n"," ","1","3"," ","F","e","b"," ","2","0","2","6">>,
      <<"T","o","k","o"," ","M","a","j","u"," "," ","1","2","/","0","2","/","2","0","2","6">>,
      <<"T","r","a","n","s","f","e","r"," ","B","C","A"," ","R","p"," ","7","5",".","0","0","0">>,
      <<"P","e","n","e","r","i","m","a",":"," ","B","u","d","i"," ","S","a","n","t","o","s","o">>,
      <<" "," ">> }

SeqsUpTo(S, n) == UNION {[1..k -> S] : k \in 0..n}

\* every receipt as a line sequence, the short ones also as one string
OcrInputs ==
    {[kind |-> "lines", lines |-> ls] : ls \in SeqsUpTo(OcrLinePool, MaxLines)}
    \cup {[kind |-> "str", text |-> Join(ls, <<"\n">>)] :
             ls \in {x \in SeqsUpTo(OcrLinePool, MaxLines) : Len(x) <= 2}}

InitOcr ==
    /\ ocr_input \in OcrInputs
    /\ ocr = <<>>
    /\ opc = "start"
    /\ IdleToken
    /\ IdleTotal
    /\ IdleText
    /\ IdleShare
    /\ IdleChat

\* one call of extract_receipt_data
ExtractReceiptData ==
    /\ opc = "start"
    /\ ocr' = ExtractFrame(ocr_input)
    /\ opc' = "done"
    /\ UNCHANGED <<ocr_input, tokenVars, totalVars, textVars, shareVars, chatVars>>

SpecOcr == InitOcr /\ [][ExtractReceiptData]_vars

\* normalized lines for _extract_total: keyword lines with an inline amount,
\* a line holding two keywords, stop labels before and after the amount, a
\* labelled reference number, a bare amount, a bank keyword
TotalLinePool ==
    { <<"T","O","T","A","L"," ","R","p"," ","5","0",".","0","0","0">>,
      <<"t","o","t","a","l"," ","4","8","0","0","0">>,
      <<"J","u","m","l","a","h"," ","1",".","0","0","0",".","0","0","0">>,
      <<"g","r","a","n","d"," ","t","o","t","a","l"," ","1","0","0","0","0","0","0">>,
      <<"T","o","t","a","l"," ","A","d","m","i","n"," ","2",".","5","0","0">>,
      <<"T","O","T","A","L"," ","R","p"," ","5","0",".","0","0","0"," ","R","e","f"," ","N","o"," ","1","2","3","4","5","6","7">>,
      <<"R","e","f"," ","N","o"," ","1","2","3","4","5","6","7","8","9","0">>,
      <<"7","5",".","0","0","0">>,
      <<"N","o","m","i","n","a","l"," ","R","p"," ","2","0",".","0","0","0">> }

InitTotal ==
    /\ xt_lines \in SeqsUpTo(TotalLinePool, MaxLines)
    /\ xt_bank \in BOOLEAN
    /\ xt = <<>>
    /\ xpc = "start"
    /\ IdleToken
    /\ IdleOcr
    /\ IdleText
    /\ IdleShare
    /\ IdleChat

\* one call of _extract_total
ExtractTotal ==
    /\ xpc = "start"
    /\ xt' = ExtractTotalFrame(xt_lines, xt_bank)
    /\ xpc' = "done"
    /\ UNCHANGED <<xt_lines, xt_bank, tokenVars, ocrVars, textVars, shareVars, chatVars>>

SpecTotal == InitTotal /\ [][ExtractTotal]_vars

----------------------------------------------------------------------------
(* parser.py: free-text entry                                              *)

\* s.strip(chars)
RECURSIVE LStripChars(_, _)
LStripChars(s, chars) ==
    IF s # <<>> /\ Head(s) \in chars THEN LStripChars(Tail(s), chars) ELSE s

RECURSIVE RStripChars(_, _)
RStripChars(s, chars) ==
    IF s # <<>> /\ s[Len(s)] \in chars THEN RStripChars(Upto(s, Len(s) - 1), chars) ELSE s

StripChars(s, chars) == RStripChars(LStripChars(s, chars), chars)

\* str.capitalize()
Capitalize(s) ==
    [i \in 1..Len(s) |-> IF i = 1 THEN UpperChar(s[i]) ELSE LowerChar(s[i])]

\* the position where a greedy \s* or \d+ starting at position i stops
RECURSIVE SkipClass(_, _, _)
SkipClass(s, i, class) ==
    IF i <= Len(s) /\ s[i] \in class THEN SkipClass(s, i + 1, class) ELSE i

\* a literal of a (?i) pattern, given in lower case, matches at position i
MatchesAt(s, i, p) ==
    /\ i + Len(p) - 1 <= Len(s)
    /\ ToLower(SubSeq(s, i, i + Len(p) - 1)) = p

\* normalize_category: known names get their canonical spelling, other names
\* are title-cased, an empty name is "Lainnya"
normalize_category(name) ==
    LET clean == ToLower(Strip(CollapseSpaces(name)))
        known == {i \in 1..Len(CATEGORY_KEYWORDS) :
                     clean = ToLower(CATEGORY_KEYWORDS[i][1])}
    IN IF clean = <<>> THEN <<"L","a","i","n","n","y","a">>
       ELSE IF known # {} THEN CATEGORY_KEYWORDS[Min(known)][1]
       ELSE Title(clean)

\* AMOUNT_TOKEN_RE, the number group \d+(?:[.,]\d+)?(?:[.,]\d{3})* from
\* position i on: the position after its last character
RECURSIVE ThousandGroupsEnd(_, _)
ThousandGroupsEnd(s, e) ==
    IF /\ e + 3 <= Len(s)
       /\ s[e] \in {".", ","}
       /\ \A k \in 1..3 : IsDigit(s[e + k])
    THEN ThousandGroupsEnd(s, e + 4)
    ELSE e

AmountNumberEnd(s, i) ==
    LET e1 == SkipClass(s, i, Digits)
        e2 == IF /\ e1 + 1 <= Len(s)
                 /\ s[e1] \in {".", ","}
                 /\ IsDigit(s[e1 + 1])
              THEN SkipClass(s, e1 + 1, Digits)
              ELSE e1
    IN ThousandGroupsEnd(s, e2)

\* AMOUNT_TOKEN_RE, the optional group (?:\s*(rb|ribu|k|jt|juta)\b)? from
\* position e on: the position after the match
AMOUNT_SUFFIXES == << <<"r","b">>, <<"r","i","b","u">>, <<"k">>, <<"j","t">>, <<"j","u","t","a">> >>

AmountSuffixEnd(s, e) ==
    LET k == SkipClass(s, e, Spaces)
        hits == {n \in 1..Len(AMOUNT_SUFFIXES) :
                    /\ MatchesAt(s, k, AMOUNT_SUFFIXES[n])
                    /\ \/ k + Len(AMOUNT_SUFFIXES[n]) > Len(s)
                       \/ ~IsWord(s[k + Len(AMOUNT_SUFFIXES[n])])}
    IN IF hits = {} THEN e ELSE k + Len(AMOUNT_SUFFIXES[Min(hits)])

\* AMOUNT_TOKEN_RE matched at position i: the position of the first digit of
\* the number, after the optional "rp", "." and blanks; 0 when no match
\* starts at i
AmountNumberAt(s, i) ==
    IF IsDigit(s[i]) THEN i
    ELSE IF MatchesAt(s, i, <<"r","p">>)
    THEN LET d == IF i + 2 <= Len(s) /\ s[i + 2] = "." THEN i + 3 ELSE i + 2
             n == SkipClass(s, d, Spaces)
         IN IF n <= Len(s) /\ IsDigit(s[n]) THEN n ELSE 0
    ELSE 0

\* AMOUNT_TOKEN_RE.search(s): <<match.start(), match.end()>>, or None
AmountSearch(s) ==
    LET starts == {i \in 1..Len(s) : AmountNumberAt(s, i) # 0}
        i == Min(starts)
    IN IF starts = {} THEN None
       ELSE << i - 1, AmountSuffixEnd(s, AmountNumberEnd(s, AmountNumberAt(s, i))) - 1 >>

\* parse_amount_from_text
AmountFromMatch(value) ==
    IF value = None \/ value[1] <= 0 THEN None ELSE value

parse_amount_from_text(text) ==
    LET match == AmountSearch(text)
    IN IF match = None THEN None
       ELSE AmountFromMatch(parse_amount_token(SubSeq(text, match[1] + 1, match[2])))

\* the trailing override (?i)(?:kategori|cat)\s*[:=-]?\s*([a-zA-Z/& ]+)$
LabelChars == LowerLetters \cup UpperLetters \cup {"/", "&", " "}

CategoryMarkerLen(s, i) ==
    IF MatchesAt(s, i, <<"k","a","t","e","g","o","r","i">>) THEN 8
    ELSE IF MatchesAt(s, i, <<"c","a","t">>) THEN 3
    ELSE 0

\* the position where group 1 starts when the text after a marker, from
\* position j on, matches up to the end; 0 when it does not
CategoryLabelStart(s, j) ==
    LET a == SkipClass(s, j, Spaces)
        sep == a <= Len(s) /\ s[a] \in {":", "=", "-"}
        lo == IF sep THEN a + 1 ELSE j
        hi == IF sep THEN SkipClass(s, a + 1, Spaces) ELSE a
    IN IF hi <= Len(s)
       THEN IF \A k \in hi..Len(s) : s[k] \in LabelChars THEN hi ELSE 0
       ELSE IF hi > lo THEN hi - 1 ELSE 0

\* re.search of the override: <<match.start(), match.group(1)>>, or None
CategorySearch(s) ==
    LET starts == {i \in 1..Len(s) :
                      /\ CategoryMarkerLen(s, i) # 0
                      /\ CategoryLabelStart(s, i + CategoryMarkerLen(s, i)) # 0}
        i == Min(starts)
    IN IF starts = {} THEN None
       ELSE << i - 1, From(s, CategoryLabelStart(s, i + CategoryMarkerLen(s, i)) - 1) >>

STOPWORDS ==
    << <<"b","e","l","i">>, <<"b","a","y","a","r">>, <<"b","e","l","a","n","j","a">>, <<"o","r","d","e","r">>, <<"p","e","s","a","n">>, <<"p","e","s","e","n">>, <<"i","s","i">>,
       <<"t","o","p","u","p">>, <<"t","o","p"," ","u","p">> >>

\* the stopword loop: the first stopword that starts the item is cut off
DropStopword(item_candidate) ==
    LET item_low == ToLower(item_candidate)
        hits == {n \in 1..Len(STOPWORDS) :
                    StartsWith(item_low, STOPWORDS[n] \o <<" ">>)}
    IN IF hits = {} THEN item_candidate
       ELSE Strip(From(item_candidate, Len(STOPWORDS[Min(hits)])))

\* the text the item is taken from once an override has been found


CutOverride(clean, category_match) ==
    IF category_match = None THEN clean ELSE Strip(Upto(clean, category_match[1]))

\* category or infer_category(item)
SelectCategoryInferFirst(category, item) ==
    IF infer_category(item) # <<"L","a","i","n","n","y","a">> \/ category = <<>>
    THEN infer_category(item) ELSE category

SelectCategory(category, item) ==
    IF category # <<>> THEN category ELSE infer_category(item)

\* parse_expense_input from line 213 on; the frame holds the locals and the
\* returned value (None, or Some of the ParsedExpense)
ItemFrameUnchecked(frame, item_candidate, value) ==
    [frame EXCEPT
        !.result = Some([item |-> Capitalize(Strip(item_candidate)),
                         amount |-> value[1],
                         category |-> SelectCategory(frame.category,
                                         Capitalize(Strip(item_candidate)))])]

ItemFrame(frame, item_candidate, value) ==
    IF item_candidate = <<>>
    THEN [frame EXCEPT !.result = None]
    ELSE [frame EXCEPT
            !.result = Some([item |-> Capitalize(Strip(item_candidate)),
                             amount |-> value[1],
                             category |-> SelectCategory(frame.category,
                                             Capitalize(Strip(item_candidate)))])]

AmountFrame(frame, clean, amount_match, value) ==
    IF value = None \/ value[1] <= 0
    THEN [frame EXCEPT !.result = None]
    ELSE ItemFrame(frame,
                   DropStopword(StripChars(Upto(clean, amount_match[1])
                                             \o From(clean, amount_match[2]),
                                           {" ", ",", ".", "-", ":"})),
                   value)

MatchedFrame(frame, clean, amount_match) ==
    IF amount_match = None
    THEN [frame EXCEPT !.result = None]
    ELSE AmountFrame([frame EXCEPT !.amount_match = amount_match], clean, amount_match,
                     parse_amount_token(SubSeq(clean, amount_match[1] + 1, amount_match[2])))

CutFrame(frame, clean) == MatchedFrame(frame, clean, AmountSearch(clean))

OverrideFrame(clean, category_match) ==
    CutFrame([clean |-> clean,
              category_match |-> category_match,
              category |-> IF category_match = None THEN <<>>
                           ELSE normalize_category(category_match[2]),
              amount_match |-> None,
              result |-> None],
             CutOverride(clean, category_match))

CleanFrame(clean) ==
    IF clean = <<>>
    THEN [clean |-> clean, category_match |-> None, category |-> <<>>,
          amount_match |-> None, result |-> None]
    ELSE OverrideFrame(clean, CategorySearch(clean))

ExpenseFrame(text) == CleanFrame(CollapseSpaces(Strip(text)))

parse_expense_input(text) == ExpenseFrame(text).result

\* bound of the entered texts, in fragments
MaxFragments == 3

\* fragments of entered texts: stopwords, keywords, amounts, overrides
ExpenseFragments ==
    { <<"b","e","l","i">>, <<"k","o","p","i">>, <<"2","5","r","b">>, <<"b","a","y","a","r"," ","l","i","s","t","r","i","k">>, <<"4","5","0","0","0","0">>,
      <<"k","a","t","e","g","o","r","i"," ","T","a","g","i","h","a","n">>, <<"c","a","t">>, <<"0">>, <<"R","p"," ","1",",","5"," ","j","t">>, <<"g","r","a","b",":">>,
      <<"K","A","T","E","G","O","R","I","="," ","m","a","k","a","n","a","n"," ","&"," ","m","i","n","u","m","a","n">>, <<"\n">> }

\* the texts made of at most n fragments, one blank between two fragments
TextsOf(fragments, n) ==
    {Join(parts, <<" ">>) : parts \in SeqsUpTo(fragments, n)}

ExpenseTexts == TextsOf(ExpenseFragments, MaxFragments)

InitExpense ==
    /\ text_input \in ExpenseTexts
    /\ text_frame = <<>>
    /\ ppc = "start"
    /\ IdleToken
    /\ IdleOcr
    /\ IdleTotal
    /\ IdleShare
    /\ IdleChat

\* one call of parse_expense_input
ParseExpenseInput ==
    /\ ppc = "start"
    /\ text_frame' = ExpenseFrame(text_input)
    /\ ppc' = "done"
    /\ UNCHANGED text_input
    /\ UNCHANGED <<tokenVars, ocrVars, totalVars, shareVars, chatVars>>

SpecExpense == InitExpense /\ [][ParseExpenseInput]_vars

----------------------------------------------------------------------------
(* parser.py: split bill                                                   *)

\* the position after keyword\s*[:=]?\s* for a keyword that starts at i
KeywordValueStart(s, i, keyword) ==
    LET a == SkipClass(s, i + Len(keyword), Spaces)
    IN IF a <= Len(s) /\ s[a] \in {":", "="}
       THEN SkipClass(s, a + 1, Spaces) ELSE a

\* ([0-9]+(?:[.,][0-9]+)?)\s*% from position n on: the position after
\* group 1, 0 when there is no match
PercentEnd(s, n) ==
    LET e1 == SkipClass(s, n, Digits)
        e2 == IF e1 + 1 <= Len(s) /\ s[e1] \in {".", ","} /\ IsDigit(s[e1 + 1])
              THEN SkipClass(s, e1 + 1, Digits) ELSE e1
        k == SkipClass(s, e2, Spaces)
    IN IF e1 > n /\ k <= Len(s) /\ s[k] = "%" THEN e2 ELSE 0

\* a percentage as <<mantissa, number of fraction digits>>, or None
parse_percentage_after_keyword(text, keyword) ==
    LET starts == {i \in 1..Len(text) :
                      /\ MatchesAt(text, i, keyword)
                      /\ PercentEnd(text, KeywordValueStart(text, i, keyword)) # 0}
        n == KeywordValueStart(text, Min(starts), keyword)
        float == ParseFloat(Replace(SubSeq(text, n, PercentEnd(text, n) - 1), <<",">>, <<".">>))
    IN IF starts = {} THEN None ELSE Some(<<float[2], float[3]>>)

\* ((?:rp\.?\s*)?\d[\d.,]*(?:\s*(?:rb|ribu|k|jt|juta)\b)?)(?![\d%]) from
\* position n on: the position after group 1, 0 when there is no match.  The
\* lookahead makes the match give characters back: a number before '%' is cut
\* at its last '.' or ','.
AmountAfterEnd(s, n, first, e) ==
    LET q == AmountSuffixEnd(s, e)
        cuts == {c \in (first + 1)..(e - 1) : s[c] \in {".", ","}}
    IN IF q # e /\ (q > Len(s) \/ s[q] # "%") THEN q
       ELSE IF e > Len(s) \/ s[e] # "%" THEN e
       ELSE IF cuts # {} THEN Max(cuts)
       ELSE 0

AmountAfter(s, n) ==
    IF n > Len(s) \/ AmountNumberAt(s, n) = 0 THEN 0
    ELSE AmountAfterEnd(s, n, AmountNumberAt(s, n),
                        SkipClass(s, AmountNumberAt(s, n) + 1, Digits \cup {".", ","}))

parse_amount_after_keyword(text, keyword) ==
    LET starts == {i \in 1..Len(text) :
                      /\ MatchesAt(text, i, keyword)
                      /\ AmountAfter(text, KeywordValueStart(text, i, keyword)) # 0}
        n == KeywordValueStart(text, Min(starts), keyword)
    IN IF starts = {} THEN None
       ELSE parse_amount_token(SubSeq(text, n, AmountAfter(text, n) - 1))

\* the people count: (?:bagi|untuk|dibagi)\s*(\d+)..., else
\* (\d+)\s*(?:orang|org|pax|teman); the digits of group 1, or None
PEOPLE_WORDS == << <<"b","a","g","i">>, <<"u","n","t","u","k">>, <<"d","i","b","a","g","i">> >>

PEOPLE_UNITS == << <<"o","r","a","n","g">>, <<"o","r","g">>, <<"p","a","x">>, <<"t","e","m","a","n">> >>

PeopleAfterWord(low) ==
    LET at(i) == {w \in 1..Len(PEOPLE_WORDS) :
                     LET n == SkipClass(low, i + Len(PEOPLE_WORDS[w]), Spaces)
                     IN /\ StartsWithAt(low, i, PEOPLE_WORDS[w])
                        /\ n <= Len(low) /\ IsDigit(low[n])}
        starts == {i \in 1..Len(low) : at(i) # {}}
        n == SkipClass(low, Min(starts) + Len(PEOPLE_WORDS[Min(at(Min(starts)))]), Spaces)
    IN IF starts = {} THEN None
       ELSE Some(SubSeq(low, n, SkipClass(low, n, Digits) - 1))

PeopleBeforeUnit(low) ==
    LET starts == {i \in 1..Len(low) :
                      /\ IsDigit(low[i])
                      /\ \E u \in 1..Len(PEOPLE_UNITS) :
                            StartsWithAt(low, SkipClass(low, SkipClass(low, i, Digits), Spaces),
                                         PEOPLE_UNITS[u])}
    IN IF starts = {} THEN None
       ELSE Some(SubSeq(low, Min(starts), SkipClass(low, Min(starts), Digits) - 1))

PeopleSearch(low) ==
    IF PeopleAfterWord(low) # None THEN PeopleAfterWord(low) ELSE PeopleBeforeUnit(low)

\* a or b for Optional[int] values: the first that is neither None nor 0
OrElse(a, b) == IF a # None /\ a[1] # 0 THEN a ELSE b

\* int(round(base * pct / 100))
PercentOf(base, pct) == RoundHalfEven(base * pct[1], pct[2] + 2)

\* ParsedSplitBill.grand_total
grand_total(split) == split.subtotal + split.service_amount + split.tax_amount

\* service_amount, lines 271-275
ServiceAmount(explicit, service_pct, subtotal) ==
    IF explicit[1] # 0 THEN explicit[1]
    ELSE IF service_pct # None THEN PercentOf(subtotal, service_pct[1])
    ELSE 0

\* tax_amount, lines 277-287
TaxAmount(explicit, pajak_pct, ppn_pct, base) ==
    IF explicit[1] # 0 THEN explicit[1]
    ELSE IF pajak_pct # None THEN PercentOf(base, pajak_pct[1])
    ELSE IF ppn_pct # None THEN PercentOf(base, ppn_pct[1])
    ELSE 0

\* parse_split_bill from line 271 on
SplitAmounts(text, subtotal, people, service_amount) ==
    Some([subtotal |-> subtotal,
          people |-> people,
          service_amount |-> service_amount,
          tax_amount |-> TaxAmount(OrElse(parse_amount_after_keyword(text, <<"p","a","j","a","k">>),
                                          OrElse(parse_amount_after_keyword(text, <<"p","p","n">>),
                                                 Some(0))),
                                   parse_percentage_after_keyword(text, <<"p","a","j","a","k">>),
                                   parse_percentage_after_keyword(text, <<"p","p","n">>),
                                   subtotal + service_amount)])

SplitSubtotal(text, people, subtotal) ==
    IF subtotal = None \/ subtotal[1] <= 0 THEN None
    ELSE SplitAmounts(text, subtotal[1], people,
                      ServiceAmount(OrElse(parse_amount_after_keyword(text, <<"s","e","r","v","i","c","e">>),
                                           Some(0)),
                                    parse_percentage_after_keyword(text, <<"s","e","r","v","i","c","e">>),
                                    subtotal[1]))

\* the subtotal by keyword priority, else the first amount of the text
SubtotalOf(text) ==
    OrElse(parse_amount_after_keyword(text, <<"t","o","t","a","l">>),
           OrElse(parse_amount_after_keyword(text, <<"t","a","g","i","h","a","n">>),
                  OrElse(parse_amount_after_keyword(text, <<"b","i","l","l">>),
                         parse_amount_from_text(text))))

SplitPeopleUnchecked(text, people_match) ==
    IF people_match = None THEN None
    ELSE SplitSubtotal(text, ToInt(people_match[1]),
                       SubtotalOf(text))

SplitPeople(text, people_match) ==
    IF people_match = None THEN None
    ELSE IF ToInt(people_match[1]) <= 0 THEN None
    ELSE SplitSubtotal(text, ToInt(people_match[1]),
                       SubtotalOf(text))

\* the frame of a parse_split_bill call: the trigger test, the people match
\* and the returned value (None, or Some of the ParsedSplitBill)
TriggeredFrame(text, people_match) ==
    [triggered |-> TRUE, people_match |-> people_match,
     result |-> SplitPeople(text, people_match)]

SplitFrame(text) ==
    IF ~Contains(ToLower(text), <<"s","p","l","i","t"," ","b","i","l","l">>) /\ ~Contains(ToLower(text), <<"p","a","t","u","n","g","a","n">>)
    THEN [triggered |-> FALSE, people_match |-> None, result |-> None]
    ELSE TriggeredFrame(text, PeopleSearch(ToLower(text)))

parse_split_bill(text) == SplitFrame(text).result

\* fragments of split-bill requests
SplitFragments ==
    { <<"s","p","l","i","t"," ","b","i","l","l"," ","t","o","t","a","l"," ","3","0","0","0","0","0"," ","u","n","t","u","k"," ","3"," ","o","r","a","n","g">>, <<"p","a","t","u","n","g","a","n"," ","3"," ","o","r","a","n","g">>,
      <<"S","p","l","i","t"," ","B","i","l","l"," ","t","a","g","i","h","a","n"," ","5","0","r","b"," ","b","a","g","i"," ","4">>, <<"s","p","l","i","t"," ","b","i","l","l"," ","t","o","t","a","l"," ","0"," ","u","n","t","u","k"," ","2"," ","o","r","a","n","g">>,
      <<"t","o","t","a","l"," ","2","5"," ","d","i","b","a","g","i"," ","0"," ","t","e","m","a","n">>, <<"s","e","r","v","i","c","e"," ","1","0","%">>, <<"p","a","j","a","k"," ","1","0","%">>,
      <<"s","e","r","v","i","c","e"," ","2",",","5","%">>, <<"p","p","n",":"," ","R","p"," ","5",".","0","0","0">>, <<"p","a","t","u","n","g","a","n"," ","b","i","l","l"," ","7","5","k">> }

SplitTexts == TextsOf(SplitFragments, MaxFragments)

InitSplit ==
    /\ text_input \in SplitTexts
    /\ text_frame = <<>>
    /\ ppc = "start"
    /\ IdleToken
    /\ IdleOcr
    /\ IdleTotal
    /\ IdleShare
    /\ IdleChat

\* one call of parse_split_bill
ParseSplitBill ==
    /\ ppc = "start"
    /\ text_frame' = SplitFrame(text_input)
    /\ ppc' = "done"
    /\ UNCHANGED text_input
    /\ UNCHANGED <<tokenVars, ocrVars, totalVars, shareVars, chatVars>>

SpecSplit == InitSplit /\ [][ParseSplitBill]_vars

----------------------------------------------------------------------------
(* service.py: the per-person share of a split bill                        *)

(* Python integers are unbounded and grand_total / people is a binary64
   float, so amounts are kept here as <<high, low>> with the value
   high * 10^8 + low, which holds every amount below 10^17. *)
WideBase == 100000000

Wide(n) == <<n \div WideBase, n % WideBase>>

WideLess(x, y) == x[1] < y[1] \/ (x[1] = y[1] /\ x[2] < y[2])

WideSucc(x) == IF x[2] + 1 = WideBase THEN <<x[1] + 1, 0>> ELSE <<x[1], x[2] + 1>>

WidePred(x) == IF x[2] = 0 THEN <<x[1] - 1, WideBase - 1>> ELSE <<x[1], x[2] - 1>>

\* x * k for a small k
WideTimes(x, k) == <<x[1] * k + (x[2] * k) \div WideBase, (x[2] * k) % WideBase>>

\* x // k and x % k for a small k, as <<quotient, remainder>>
WideDivMod(x, k) ==
    << << x[1] \div k, ((x[1] % k) * WideBase + x[2]) \div k >>,
       ((x[1] % k) * WideBase + x[2]) % k >>

\* 2^50 .. 2^53 as wide values
TwoTo50 == <<11258999, 6842624>>

TwoTo51 == <<22517998, 13685248>>

TwoTo52 == <<45035996, 27370496>>

TwoTo53 == <<90071992, 54740992>>

\* 2 / ulp(n) for a quotient n below 2^53: the floats around n are ulp(n)
\* apart.  Below 2^50 the value is 16 or more; 16 stands for it, which is
\* above every people count of the model.
HalfUlpInverse(n) ==
    IF WideLess(n, TwoTo50) THEN 16
    ELSE IF WideLess(n, TwoTo51) THEN 8
    ELSE IF WideLess(n, TwoTo52) THEN 4
    ELSE 2

\* math.ceil(a / b) for the exact quotient n + r / b: a / b is the float
\* nearest to the quotient, ties to the even mantissa
CeilOfFloat(n, r, b) ==
    IF WideLess(n, TwoTo53)
    THEN IF r * HalfUlpInverse(n) < b THEN n
         ELSE IF r * HalfUlpInverse(n) > b THEN WideSucc(n)
         ELSE IF WideLess(n, TwoTo52) \/ n[2] % 2 = 0 THEN n
         ELSE WideSucc(n)
    ELSE IF n[2] % 2 = 0 THEN n
    ELSE IF r > 0 THEN WideSucc(n)
    ELSE IF WidePred(n)[2] % 4 = 0 THEN WidePred(n)
    ELSE WideSucc(n)

\* per_person = int(math.ceil(split.grand_total / split.people))
PerPersonOf(quotient, people) == CeilOfFloat(quotient[1], quotient[2], people)

PerPerson(split) == PerPersonOf(WideDivMod(split.grand_total, split.people), split.people)

\* bounds of the bills handed to the reply
MaxPeople == 4

MaxSmallTotal == 20

MaxOffset == 4

\* grand totals: small ones, the one of the worked example, and the ones
\* around 2^52 and 2^53
ShareTotals ==
    {Wide(n) : n \in 1..MaxSmallTotal} \cup {Wide(363000)}
    \cup {<<TwoTo52[1], TwoTo52[2] + k>> : k \in 0..MaxOffset}
    \cup {<<TwoTo53[1], TwoTo53[2] + k - 2>> : k \in 0..(MaxOffset + 2)}

InitShare ==
    /\ bill \in {[grand_total |-> g, people |-> p] : g \in ShareTotals, p \in 1..MaxPeople}
    /\ per_person = 0
    /\ spc = "start"
    /\ IdleToken
    /\ IdleOcr
    /\ IdleTotal
    /\ IdleText
    /\ IdleChat

\* one call of _reply_split_bill
ReplySplitBill ==
    /\ spc = "start"
    /\ per_person' = PerPerson(bill)
    /\ spc' = "done"
    /\ UNCHANGED bill
    /\ UNCHANGED <<tokenVars, ocrVars, totalVars, textVars, chatVars>>

SpecShare == InitShare /\ [][ReplySplitBill]_vars

----------------------------------------------------------------------------
(* parser.py: the category calls                                           *)

\* fragments of item texts and category names: a keyword of each category,
\* the words of a category name, other words, blanks, a name that starts
\* with U+01F0
CategoryFragments ==
    { <<"k","o","p","i">>, <<"G","r","a","b">>, <<"b","e","l","a","n","j","a">>, <<"T","a","g","i","h","a","n">>, <<"n","e","t","f","l","i","x">>, <<"O","B","A","T">>, <<"b","u","k","u">>,
      <<"m","a","k","a","n","a","n">>, <<"&">>, <<"M","I","N","U","M","A","N">>, <<" "," ">>, <<"\n">>, <<"a","1","b">>, <<JCaron, "a">> }

CategoryTexts == TextsOf(CategoryFragments, MaxFragments)

InitCategory ==
    /\ text_input \in CategoryTexts
    /\ text_frame = <<>>
    /\ ppc = "start"
    /\ IdleToken
    /\ IdleOcr
    /\ IdleTotal
    /\ IdleShare
    /\ IdleChat

\* one call of infer_category
InferCategory ==
    /\ ppc = "start"
    /\ text_frame' = infer_category(text_input)
    /\ ppc' = "inferred"
    /\ UNCHANGED text_input
    /\ UNCHANGED <<tokenVars, ocrVars, totalVars, shareVars, chatVars>>

\* a call of normalize_category on the text, then one on the name returned
NormalizeCategory ==
    /\ ppc \in {"start", "normalized"}
    /\ text_frame' = normalize_category(IF ppc = "start" THEN text_input ELSE text_frame)
    /\ ppc' = IF ppc = "start" THEN "normalized" ELSE "renormalized"
    /\ UNCHANGED text_input
    /\ UNCHANGED <<tokenVars, ocrVars, totalVars, shareVars, chatVars>>

SpecCategory == InitCategory /\ [][InferCategory \/ NormalizeCategory]_vars

----------------------------------------------------------------------------
(* telegram_bot.py: the chat handlers and the pending receipt              *)
(* service.py: handle_text and record_expense                              *)

\* str.split(): the runs of non-blank characters
Words(s) ==
    IF Strip(s) = <<>> THEN <<>> ELSE Split(CollapseSpaces(Strip(s)), " ")

\* s.replace(old, "", 1)
ReplaceFirst(s, old) ==
    IF Contains(s, old)
    THEN Upto(s, Find(s, old)) \o From(s, Find(s, old) + Len(old))
    ELSE s

ADVICE_KEYWORDS ==
    {<<"i","n","v","e","s","t","a","s","i">>, <<"c","r","y","p","t","o">>, <<"k","r","i","p","t","o">>, <<"f","o","r","e","x">>, <<"l","e","v","e","r","a","g","e">>, <<"f","u","t","u","r","e","s">>}

\* A seeded fault: the row loses its category.
ExpenseRowUncategorized(item, value, category) ==
    [item |-> item, amount |-> value, category |-> <<"L","a","i","n","n","y","a">>]

\* the row db.add_expense inserts (the id and the timestamp are not kept)
ExpenseRow(item, value, category) ==
    [item |-> item, amount |-> value, category |-> category]

\* handle_text once no command matched: a split bill, an expense, or a hint
HandleFreeText(split, parsed) ==
    IF split # None THEN [kind |-> "split", row |-> None]
    ELSE IF parsed # None
         THEN [kind |-> "recorded",
               row |-> Some(ExpenseRow(parsed[1].item, parsed[1].amount,
                                       parsed[1].category))]
         ELSE [kind |-> "unreadable", row |-> None]

\* handle_text after the command dispatch
HandlePhrase(clean, normalized) ==
    IF StartsWith(normalized, <<"a","t","u","r"," ","b","u","d","g","e","t">>) \/ StartsWith(normalized, <<"s","e","t"," ","b","u","d","g","e","t">>)
    THEN [kind |-> "budget", row |-> None]
    ELSE IF Contains(normalized, <<"l","a","p","o","r","a","n"," ","m","i","n","g","g","u">>) \/ Contains(normalized, <<"l","a","p","o","r","a","n"," ","b","u","l","a","n">>)
    THEN [kind |-> "report", row |-> None]
    ELSE IF \E keyword \in ADVICE_KEYWORDS : Contains(normalized, keyword)
    THEN [kind |-> "advice", row |-> None]
    ELSE HandleFreeText(parse_split_bill(clean), parse_expense_input(clean))

\* handle_text from the command word on. /hapus with an id goes to
\* db.delete_by_id, which needs the row ids this model does not keep: no
\* message of the pool below is such a command.
HandleCommand(clean, normalized, command, args) ==
    IF command \in {<<"s","t","a","r","t">>, <<"h","e","l","p">>} THEN [kind |-> "help", row |-> None]
    ELSE IF command = <<"t","o","t","a","l">> THEN [kind |-> "total", row |-> None]
    ELSE IF command = <<"l","i","s","t">> THEN [kind |-> "list", row |-> None]
    ELSE IF command = <<"h","a","p","u","s">> THEN [kind |-> "delete", row |-> None]
    ELSE IF command = <<"r","e","s","e","t">>
    THEN [kind |-> IF args = <<>> \/ args[1] # <<"y","a">> THEN "reset_usage" ELSE "reset",
          row |-> None]
    ELSE IF command \in {<<"b","u","d","g","e","t">>, <<"a","n","g","g","a","r","a","n">>} THEN [kind |-> "budget", row |-> None]
    ELSE IF command \in {<<"l","a","p","o","r","a","n">>, <<"r","e","p","o","r","t">>} THEN [kind |-> "report", row |-> None]
    ELSE HandlePhrase(clean, normalized)

HandleTokenized(clean, normalized, tokenized) ==
    HandleCommand(clean, normalized,
                  IF tokenized # <<>> THEN tokenized[1] ELSE <<>>,
                  IF tokenized # <<>> THEN Tail(tokenized) ELSE <<>>)

HandleClean(clean, normalized) ==
    IF clean = <<>> THEN [kind |-> "hint", row |-> None]
    ELSE HandleTokenized(clean, normalized, Words(ReplaceFirst(normalized, <<"/">>)))

\* ExpenseService.handle_text: the kind of its reply and the row it records
handle_text(text) == HandleClean(Strip(text), Strip(ToLower(Strip(text))))

ACCEPT_WORDS == {<<"s","i","m","p","a","n">>, <<"y","a">>, <<"y">>, <<"o","k","e">>, <<"o","k">>}

CANCEL_WORDS == {<<"b","a","t","a","l">>, <<"t","i","d","a","k">>, <<"g","a">>, <<"g","a","k">>}

\* the pending_receipt dict photo_handler stores for a receipt
PendingOf(receipt) ==
    [item |-> IF receipt.is_bank_transaction
              THEN <<"T","r","a","n","s","f","e","r"," ","k","e"," ">> \o receipt.merchant
              ELSE <<"B","e","l","a","n","j","a"," ">> \o receipt.merchant,
     amount |-> receipt.total,
     category |-> receipt.category,
     date_text |-> receipt.date_text,
     is_bank_transaction |-> receipt.is_bank_transaction]

\* A seeded fault: a merchant edit also turns the record into a purchase.
WithMerchantRetail(record, new_merchant) ==
    [record EXCEPT !.item = <<"B","e","l","a","n","j","a"," ">> \o new_merchant,
                   !.is_bank_transaction = FALSE]

\* pending["item"] = f"Belanja {new_merchant}"
WithMerchant(record, new_merchant) ==
    [record EXCEPT !.item = <<"B","e","l","a","n","j","a"," ">> \o new_merchant]

\* an edit branch of text_handler that takes the rest of the message as the
\* new value: the record after the message and the kind of the reply
EditValue(record, new_value, edited, hint, changed) ==
    IF new_value = <<>>
    THEN [pending |-> Some(record), row |-> None, kind |-> hint]
    ELSE [pending |-> Some(edited), row |-> None, kind |-> changed]

EditCategory(record, new_category) ==
    EditValue(record, new_category, [record EXCEPT !.category = new_category],
              "category_hint", "category_changed")

EditMerchant(record, new_merchant) ==
    EditValue(record, new_merchant, WithMerchant(record, new_merchant),
              "merchant_hint", "merchant_changed")

EditDate(record, new_date) ==
    EditValue(record, new_date, [record EXCEPT !.date_text = new_date],
              "date_hint", "date_changed")

EditTotal(record, new_amount) ==
    IF new_amount = None \/ new_amount[1] <= 0
    THEN [pending |-> Some(record), row |-> None, kind |-> "total_hint"]
    ELSE [pending |-> Some([record EXCEPT !.amount = new_amount[1]]),
          row |-> None, kind |-> "total_changed"]

\* what text_handler computes from the message alone: the stripped text,
\* its lower case (as a tuple), the value each edit command would take and
\* the reply of handle_text
MessageFrame(message) ==
    [message |-> message,
     text |-> Strip(message),
     low |-> ToLower(Strip(message)) \o <<>>,
     new_amount |-> parse_amount_from_text(Strip(message)),
     new_category |-> Strip(From(Strip(message), Len(<<"u","b","a","h"," ","k","a","t","e","g","o","r","i">>))),
     new_merchant |-> Strip(From(Strip(message), Len(<<"u","b","a","h"," ","m","e","r","c","h","a","n","t">>))),
     new_date |-> Strip(From(Strip(message), Len(<<"u","b","a","h"," ","t","a","n","g","g","a","l">>))),
     handled |-> handle_text(Strip(message))]

\* text_handler while a receipt is pending
HandlePending(record, frame) ==
    IF frame.low \in ACCEPT_WORDS
    THEN [pending |-> None,
          row |-> Some(ExpenseRow(record.item, record.amount, record.category)),
          kind |-> "recorded"]
    ELSE IF StartsWith(frame.low, <<"u","b","a","h"," ","t","o","t","a","l">>)
    THEN EditTotal(record, frame.new_amount)
    ELSE IF StartsWith(frame.low, <<"u","b","a","h"," ","k","a","t","e","g","o","r","i">>)
    THEN EditCategory(record, frame.new_category)
    ELSE IF StartsWith(frame.low, <<"u","b","a","h"," ","m","e","r","c","h","a","n","t">>)
    THEN EditMerchant(record, frame.new_merchant)
    ELSE IF StartsWith(frame.low, <<"u","b","a","h"," ","t","a","n","g","g","a","l">>)
    THEN EditDate(record, frame.new_date)
    ELSE IF frame.low \in CANCEL_WORDS
    THEN [pending |-> None, row |-> None, kind |-> "cancelled"]
    ELSE [pending |-> Some(record), row |-> None, kind |-> "pending_hint"]

\* the expenses table after a reply of handle_text
TableAfter(rows, handled) ==
    IF handled.kind = "reset" THEN <<>>
    ELSE IF handled.row # None THEN Append(rows, handled.row[1])
    ELSE rows

\* bound of the expenses a chat records
MaxExpenses == 1

\* messages of a chat: accept and cancel words, every edit with a value and
\* without one, an entry, a reset
ChatMessages ==
    { <<"s","i","m","p","a","n">>, <<" ","O","K"," ">>, <<"b","a","t","a","l">>,
      <<"u","b","a","h"," ","t","o","t","a","l"," ","1","2","5","r","b">>, <<"u","b","a","h"," ","t","o","t","a","l"," ","0">>, <<"u","b","a","h"," ","t","o","t","a","l">>,
      <<"U","b","a","h"," ","K","a","t","e","g","o","r","i"," ","m","a","k","a","n","a","n"," "," ","&"," "," ","m","i","n","u","m","a","n">>, <<"u","b","a","h"," ","k","a","t","e","g","o","r","i">>,
      <<"u","b","a","h"," ","m","e","r","c","h","a","n","t"," ","T","o","k","o"," ","A">>, <<"u","b","a","h"," ","m","e","r","c","h","a","n","t"," ">>,
      <<"u","b","a","h"," ","t","a","n","g","g","a","l"," ","1","3","/","0","2","/","2","0","2","6">>, <<"u","b","a","h"," ","t","a","n","g","g","a","l">>,
      <<"b","e","l","i"," ","k","o","p","i"," ","2","5","r","b">>, <<"r","e","s","e","t"," ","y","a">> }

ChatFrames == {MessageFrame(message) : message \in ChatMessages}

\* the texts the OCR service reads from the photos of a chat
ChatScans ==
    { <<"T","o","k","o"," ","M","a","j","u"," "," ","1","2","/","0","2","/","2","0","2","6">> \o <<"\n">> \o <<"T","O","T","A","L"," ","R","p"," ","5","0",".","0","0","0">>,
      <<"T","r","a","n","s","f","e","r"," ","B","C","A"," ","T","o","t","a","l"," ","R","p"," ","7","5",".","0","0","0">> \o <<"\n">> \o <<"P","e","n","e","r","i","m","a",":"," ","B","u","d","i"," ","S","a","n","t","o","s","o">>,
      <<"#","@","!","%"," ","7","5","0","0","0"," ","~","~","*","*">> }

\* what scan_receipt hands to photo_handler: nothing when the key is
\* missing or the service read no text, an exception, or the extraction
ScanOutcomes ==
    {[outcome |-> "disabled", result |-> None],
     [outcome |-> "failed", result |-> None],
     [outcome |-> "unread", result |-> None]}
    \cup {[outcome |-> "scanned",
           result |-> Some(extract_receipt_data([kind |-> "str", text |-> raw_text]))] :
             raw_text \in ChatScans}

InitChat ==
    /\ pending = None
    /\ expenses = <<>>
    /\ reply = "idle"
    /\ IdleToken
    /\ IdleOcr
    /\ IdleTotal
    /\ IdleText
    /\ IdleShare

\* photo_handler for one photo
PhotoHandler ==
    \E scan \in ScanOutcomes :
        /\ IF scan.outcome # "scanned"
           THEN pending' = pending /\ reply' = scan.outcome
           ELSE IF scan.result[1].needs_manual_total_confirmation
                   \/ scan.result[1].receipt = None
                THEN pending' = pending /\ reply' = "manual"
                ELSE /\ pending' = Some(PendingOf(scan.result[1].receipt[1]))
                     /\ reply' = "receipt"
        /\ text_input' = <<>>
        /\ UNCHANGED <<expenses, text_frame, ppc>>
        /\ UNCHANGED <<tokenVars, ocrVars, totalVars, shareVars>>

\* text_handler for one text message; text_input keeps the message
TextHandler ==
    \E frame \in ChatFrames :
        /\ IF pending # None
           THEN LET after == HandlePending(pending[1], frame)
                IN /\ after.row # None => Len(expenses) < MaxExpenses
                   /\ pending' = after.pending
                   /\ expenses' = IF after.row # None
                                  THEN Append(expenses, after.row[1])
                                  ELSE expenses
                   /\ reply' = after.kind
           ELSE /\ frame.handled.row # None => Len(expenses) < MaxExpenses
                /\ pending' = pending
                /\ expenses' = TableAfter(expenses, frame.handled)
                /\ reply' = frame.handled.kind
        /\ text_input' = frame.message
        /\ UNCHANGED <<text_frame, ppc>>
        /\ UNCHANGED <<tokenVars, ocrVars, totalVars, shareVars>>

SpecChat == InitChat /\ [][PhotoHandler \/ TextHandler]_vars

----------------------------------------------------------------------------
(* ocr.py: the noise gate on its own                                       *)

\* lines for the gate: a name with a date, a garbled line, a line with 9
\* alphanumeric characters out of 20, a blank line
GateLinePool ==
    { <<"T","o","k","o"," ","M","a","j","u"," ","1","2","/","0","2","/","2","0","2","6">>, <<"#","@","!","%"," ","7","5","0","0","0"," ","~","~","*","*">>, <<"a","b","c","d"," ","1","2","3","4","5"," ","#","#","#","#","#","#","#","#","#","#","#">>, <<" "," ">> }

\* the pairs _extract_total may hand to the gate: no total, a total on
\* either side of the minimum, with and without the fallback flag
GateTotals ==
    {[keyword_amounts |-> <<>>, total |-> total, used_fallback_total |-> used] :
        total \in {None, Some(MIN_TOTAL - 1), Some(MIN_TOTAL), Some(50000)},
        used \in BOOLEAN}

InitGate ==
    /\ ocr_input \in {[kind |-> "lines", lines |-> ls] :
                         ls \in SeqsUpTo(GateLinePool, MaxLines)}
    /\ ocr = <<>>
    /\ opc = "start"
    /\ xt_lines = <<>>
    /\ xt_bank = FALSE
    /\ xt \in GateTotals
    /\ xpc = "idle"
    /\ IdleToken
    /\ IdleText
    /\ IdleShare
    /\ IdleChat

\* extract_receipt_data from the call of _is_noisy on, for the pair xt that
\* _extract_total returned
GateExtraction ==
    /\ opc = "start"
    /\ ocr' = TotalledFrame(_normalize_lines(ocr_input),
                            _detect_bank_transaction(_normalize_lines(ocr_input)), xt)
    /\ opc' = "done"
    /\ UNCHANGED <<ocr_input, tokenVars, totalVars, textVars, shareVars, chatVars>>

SpecGate == InitGate /\ [][GateExtraction]_vars

----------------------------------------------------------------------------
(* ocr.py: _extract_total on subtotal, keyword, hint and plain lines       *)

\* normalized lines: two subtotal lines, a keyword line without an amount, a
\* keyword line with one, a line with two amounts, a line with a hint, a
\* line with an amount below the minimum
CandidateLinePool ==
    { <<"S","u","b","t","o","t","a","l"," ","4","0",".","0","0","0">>, <<"S","U","B"," ","T","O","T","A","L"," ","R","p"," ","4","5",".","0","0","0">>, <<"T","o","t","a","l">>, <<"T","O","T","A","L"," ","R","p"," ","5","0",".","0","0","0">>,
      <<"K","o","p","i"," ","1","2",".","5","0","0"," ","2"," ","2","5",".","0","0","0">>, <<"C","a","s","h"," ","1","0","0",".","0","0","0">>, <<"R","o","t","i"," ","9","0","0">> }

InitCandidates ==
    /\ xt_lines \in SeqsUpTo(CandidateLinePool, MaxLines)
    /\ xt_bank \in BOOLEAN
    /\ xt = <<>>
    /\ xpc = "start"
    /\ IdleToken
    /\ IdleOcr
    /\ IdleText
    /\ IdleShare
    /\ IdleChat

SpecCandidates == InitCandidates /\ [][ExtractTotal]_vars


-----------------------------------------------------------------------------
(* ocr.py: _detect_bank_transaction on names, context words and hints      *)

\* normalized lines: a bank name with one hint, a bare bank name, a context
\* word that is no hint, a hint that is no context word, a hint that needs a
\* following space, a shop name, a word that is both hint and context
BankTextPool ==
    { <<"B","a","n","k"," ","B","C","A">>, <<"M","a","n","d","i","r","i">>, <<"N","o","m","i","n","a","l">>, <<"K","r","e","d","i","t">>, <<"B","a","y","a","r"," ","V","A">>, <<"T","o","k","o"," ","M","a","j","u">>,
      <<"T","r","a","n","s","f","e","r">> }

InitBank ==
    /\ xt_lines \in SeqsUpTo(BankTextPool, MaxLines)
    /\ xt_bank = FALSE
    /\ xt = <<>>
    /\ xpc = "start"
    /\ IdleToken /\ IdleOcr /\ IdleText /\ IdleShare /\ IdleChat

\* is_bank_transaction = _detect_bank_transaction(lines)
DetectBankTransaction ==
    /\ xpc = "start"
    /\ xt_bank' = _detect_bank_transaction(xt_lines)
    /\ xpc' = "detected"
    /\ UNCHANGED <<xt_lines, xt, tokenVars, ocrVars, textVars, shareVars, chatVars>>

SpecBank == InitBank /\ [][DetectBankTransaction]_vars

-----------------------------------------------------------------------------
(* ocr.py: the merchant of a retail receipt and of a bank transaction      *)

MaxMerchantLines == 4

MaxRunDigits == 501

\* three letters followed by a run of digits
LongDigitLine == <<"a","b","c">> \o [i \in 1..MaxRunDigits |-> "1"]

\* normalized lines: two shop names of equal score, a line with a structural
\* hint, a line with two letters, a line with "rp" and a negative score, a
\* line with three letters and a long run of digits
MerchantLinePool ==
    { <<"T","o","k","o"," ","M","a","j","u">>, <<"K","o","p","i"," ","K","i","t","a">>, <<"S","t","r","u","k"," ","B","e","l","a","n","j","a">>, <<"A","B"," ","1","2">>, <<"R","p"," ","5","0",".","0","0","0"," ","T","o","t","a","l">>,
      LongDigitLine }

InitRetailMerchant ==
    /\ xt_lines \in SeqsUpTo(MerchantLinePool, MaxMerchantLines)
    /\ xt_bank = FALSE
    /\ xt = <<>>
    /\ xpc = "start"
    /\ IdleToken /\ IdleOcr /\ IdleText /\ IdleShare /\ IdleChat

\* merchant = _pick_bank_merchant(lines) if is_bank_transaction else
\* _pick_merchant(lines)
PickMerchant ==
    /\ xpc = "start"
    /\ xt' = [merchant |-> IF xt_bank THEN _pick_bank_merchant(xt_lines)
                           ELSE _pick_merchant(xt_lines)]
    /\ xpc' = "picked"
    /\ UNCHANGED <<xt_lines, xt_bank, tokenVars, ocrVars, textVars, shareVars, chatVars>>

SpecRetailMerchant == InitRetailMerchant /\ [][PickMerchant]_vars

MaxHeaderLines == 6

\* a header line with two banking hints, no recipient label and no bank name
HeaderLine == <<"B","u","k","t","i"," ","T","r","a","n","s","f","e","r"," ","Q","R","I","S">>

\* the number of header lines before the lines of the pool: one, or enough
\* to move the pool to the sixth line and to the seventh
HeaderCounts == {1, MaxHeaderLines - 1, MaxHeaderLines}

\* normalized lines: a label with an acceptable inline value, a bare label, a
\* name, a label whose value is digits for exactly four tenths, a label
\* whose value contains "id", a line with two bank names, a label with a
\* value of two characters
BankLinePool ==
    { <<"P","e","n","e","r","i","m","a",":"," ","B","u","d","i"," ","S","a","n","t","o","s","o">>, <<"P","e","n","e","r","i","m","a">>, <<"B","u","d","i"," ","S","a","n","t","o","s","o">>, <<"K","e","p","a","d","a",":"," ","A","B"," ","1","2">>,
      <<"P","e","n","e","r","i","m","a",":"," ","S","i","t","i"," ","H","i","d","a","y","a","t">>, <<"T","r","a","n","s","f","e","r"," ","B","R","I"," ","k","e"," ","B","C","A">>, <<"T","u","j","u","a","n",":"," ","A","B">> }

BankMerchantInputs ==
    {[i \in 1..k |-> HeaderLine] \o ls :
        k \in HeaderCounts, ls \in SeqsUpTo(BankLinePool, MaxLines)}

InitBankMerchant ==
    /\ xt_lines \in BankMerchantInputs
    /\ xt_bank = _detect_bank_transaction(xt_lines)
    /\ xt = <<>>
    /\ xpc = "start"
    /\ IdleToken /\ IdleOcr /\ IdleText /\ IdleShare /\ IdleChat

SpecBankMerchant == InitBankMerchant /\ [][PickMerchant]_vars
----------------------------------------------------------------------------
(* Claims about the receipt extractor                                      *)

\* C1: for every input of extract_receipt_data, a string or a line sequence,
\* the returned OCRResult has a null receipt if and only if
\* needs_manual_total_confirmation is true.
C1_NullIffManual ==
    opc = "done" =>
        ((ocr.result.receipt = None) <=> ocr.result.needs_manual_total_confirmation)

\* a string input for which a structured receipt came back
C1_Witness ==
    /\ opc = "done"
    /\ ocr_input.kind = "str"
    /\ ocr.result.receipt # None
    /\ ~ocr.result.needs_manual_total_confirmation

\* alphanumeric characters over non-blank characters, below 0.45; a text
\* without non-blank characters has density 0
C2_LowDensity(lines) ==
    LET chars == Join(lines, <<" ">>)
        printable == {i \in 1..Len(chars) : ~IsSpace(chars[i])}
        alnum == {i \in printable : IsDigit(chars[i]) \/ IsAlpha(chars[i])}
    IN 100 * Cardinality(alnum) < 45 * Cardinality(printable)

C2_ShortAndGarbled == Len(ocr.lines) <= 2 /\ C2_LowDensity(ocr.lines)

C2_Manual ==
    ocr.result.needs_manual_total_confirmation /\ ocr.result.receipt = None

\* C2 as stated: an input whose normalized form has at most 2 lines and an
\* alphanumeric density below 0.45 always gets the manual-confirmation result
\* with a null receipt, whatever numbers or keywords it contains.
C2_GarbledAlwaysManual ==
    (opc = "done" /\ C2_ShortAndGarbled) => C2_Manual

\* C2 amended: an input whose normalized form has at most 2 lines and an
\* alphanumeric density below 0.45, and in which no total keyword anchors an
\* amount, gets the manual-confirmation result with a null receipt, whatever
\* numbers it contains.
C2_GarbledUnanchoredManual ==
    (opc = "done" /\ C2_ShortAndGarbled /\ ocr.keyword_amounts = <<>>) => C2_Manual

\* a garbled line whose number was picked up by the fallback and refused
C2_Witness ==
    /\ opc = "done"
    /\ ocr.lines # <<>>
    /\ C2_ShortAndGarbled
    /\ ocr.keyword_amounts = <<>>
    /\ ocr.used_fallback
    /\ ocr.total # None /\ ocr.total[1] >= MIN_TOTAL
    /\ C2_Manual

\* the categories a receipt may carry outside bank mode
C3_ReceiptCategories ==
    {MERCHANT_CATEGORY_OVERRIDES[i][2] : i \in 1..Len(MERCHANT_CATEGORY_OVERRIDES)}
    \cup {CATEGORY_KEYWORDS[i][1] : i \in 1..Len(CATEGORY_KEYWORDS)}
    \cup {<<"B","e","l","a","n","j","a"," ","L","a","i","n","n","y","a">>}

C3_Resolved(r) ==
    /\ r.total \in Int /\ r.total >= 1000 /\ r.total <= 2000000000
    /\ r.merchant # <<>>
    /\ r.date_text # <<>>
    /\ r.category # <<>>
    /\ r.category # <<"L","a","i","n","n","y","a">>
    /\ IF r.is_bank_transaction THEN r.category = <<"T","r","a","n","s","f","e","r","/","B","a","n","k">>
       ELSE r.category \in C3_ReceiptCategories

\* C3: every non-null receipt has its four fields resolved: a total between
\* 1000 and 2,000,000,000, a non-empty merchant, a non-empty date text and a
\* non-empty category that is never "Lainnya": "Transfer/Bank" in bank mode,
\* otherwise an override, an inferred category or "Belanja Lainnya".
C3_ReceiptResolved ==
    (opc = "done" /\ ocr.result.receipt # None) => C3_Resolved(ocr.result.receipt[1])

\* a retail receipt for which no keyword names a category
C3_Witness ==
    /\ opc = "done"
    /\ ocr.result.receipt # None
    /\ ~ocr.result.receipt[1].is_bank_transaction
    /\ ocr.result.receipt[1].category = <<"B","e","l","a","n","j","a"," ","L","a","i","n","n","y","a">>
    /\ ocr.result.receipt[1].date_text # <<"-">>

----------------------------------------------------------------------------
(* Claims about the total extractor                                        *)

\* how many candidates lie in a set of amounts
C4_Count(c, S) == Cardinality({i \in 1..Len(c) : c[i] \in S})

\* r stands at 0-based index k of the ascending order of the candidates c
C4_AtSortedIndex(c, r, k) ==
    /\ \E i \in 1..Len(c) : c[i] = r
    /\ C4_Count(c, 0..(r - 1)) <= k
    /\ C4_Count(c, 0..r) >= k + 1

\* C4: whenever _extract_total collects at least one keyword-anchored
\* candidate, it returns the element at index floor(n/2) of the ascending
\* order of the n candidates with used_fallback_total = false, whatever
\* amounts the other lines hold; candidates 48000, 50000, 1000000 give 50000.
C4_MedianOfCandidates ==
    (xpc = "done" /\ xt.keyword_amounts # <<>>) =>
        LET c == xt.keyword_amounts
        IN /\ xt.total # None
           /\ C4_AtSortedIndex(c, xt.total[1], Len(c) \div 2)
           /\ ~xt.used_fallback_total
           /\ (Len(c) = 3 /\ {c[i] : i \in 1..3} = {48000, 50000, 1000000})
                  => xt.total = Some(50000)

\* the three candidates of the example, collected out of order
C4_Witness ==
    /\ xpc = "done"
    /\ xt.keyword_amounts = <<48000, 1000000, 50000>>
    /\ xt.total = Some(50000)
    /\ ~xt.used_fallback_total

\* the two middle elements of an even number of candidates differ and r is
\* the element with exactly `above` candidates or fewer strictly above it
C5_EvenCandidates == Len(xt.keyword_amounts) >= 2 /\ Len(xt.keyword_amounts) % 2 = 0

C5_MiddleFromTop(c, r, above) ==
    /\ \E i \in 1..Len(c) : c[i] = r
    /\ Len(c) - C4_Count(c, 0..r) <= above
    /\ Len(c) - C4_Count(c, 0..(r - 1)) >= above + 1

\* C5 as stated: for an even number n >= 2 of keyword-anchored candidates the
\* total is the lower of the two middle elements of their ascending order.
C5_LowerMiddle ==
    (xpc = "done" /\ C5_EvenCandidates) =>
        /\ xt.total # None
        /\ C5_MiddleFromTop(xt.keyword_amounts, xt.total[1], Len(xt.keyword_amounts) \div 2)

\* C5 amended: for an even number n >= 2 of keyword-anchored candidates the
\* total is the upper of the two middle elements of their ascending order
\* (fewer than n/2 candidates lie strictly above it), never an average.
C5_UpperMiddle ==
    (xpc = "done" /\ C5_EvenCandidates) =>
        /\ xt.total # None
        /\ C5_MiddleFromTop(xt.keyword_amounts, xt.total[1],
                            Len(xt.keyword_amounts) \div 2 - 1)

\* two candidates, the larger one returned
C5_Witness ==
    /\ xpc = "done"
    /\ xt.keyword_amounts = <<50000, 48000>>
    /\ xt.total = Some(50000)

\* the lines on which a total keyword is followed by an inline amount
C6_KeywordLines == {i \in 1..Len(xt_lines) : xt.inline[i] # <<>>}

C6_AmountsOn(i) == {xt.inline[i][k] : k \in 1..Len(xt.inline[i])}

\* line o is the single outlier: its amount lies strictly above, or strictly
\* below, the amounts of all the other keyword lines
C6_Outlier(o) ==
    \/ \A j \in C6_KeywordLines \ {o} :
          \A a \in C6_AmountsOn(o), b \in C6_AmountsOn(j) : a > b
    \/ \A j \in C6_KeywordLines \ {o} :
          \A a \in C6_AmountsOn(o), b \in C6_AmountsOn(j) : a < b

\* C6: when at least three lines carry a total keyword with an inline amount
\* and exactly one of them holds an amount strictly larger (or strictly
\* smaller) than all the others, _extract_total does not return it.
C6_OutlierNotReturned ==
    (xpc = "done" /\ Cardinality(C6_KeywordLines) >= 3) =>
        \A o \in C6_KeywordLines :
            C6_Outlier(o) => (xt.total = None \/ xt.total[1] \notin C6_AmountsOn(o))

\* the text that follows the first occurrence of the keyword
C7_AfterKeyword(line, keyword) ==
    LET low == ToLower(line)
        at == Min({i \in 1..Len(low) - Len(keyword) + 1 :
                      SubSeq(low, i, i + Len(keyword) - 1) = keyword})
    IN SubSeq(line, at + Len(keyword), Len(line))

\* a stop label stands at position i of the text as a whole word
C7_StopLabelAt(text, i) ==
    \E k \in 1..Len(CUT_LABELS) :
        LET e == i + Len(CUT_LABELS[k]) - 1
        IN /\ e <= Len(text)
           /\ ToLower(SubSeq(text, i, e)) = CUT_LABELS[k]
           /\ (i = 1 \/ ~IsWord(text[i - 1]))
           /\ (e = Len(text) \/ ~IsWord(text[e + 1]))

\* the text up to the first stop label
C7_BeforeStop(text) ==
    LET stops == {i \in 1..Len(text) : C7_StopLabelAt(text, i)}
    IN IF stops = {} THEN text ELSE SubSeq(text, 1, Min(stops) - 1)

C7_HasStop(text) == \E i \in 1..Len(text) : C7_StopLabelAt(text, i)

\* the amounts standing between a keyword of the line and the first stop label
C7_AnchoredAmounts(line, keywords) ==
    UNION {LET found == _extract_amounts(C7_BeforeStop(C7_AfterKeyword(line, keywords[k])))
           IN {found[j] : j \in 1..Len(found)} :
              k \in {n \in 1..Len(keywords) : Contains(ToLower(line), keywords[n])}}

\* receipts made of "TOTAL Rp 50.000" lines and labelled reference numbers
C7_ExampleLines ==
    /\ \A i \in 1..Len(xt_lines) :
          xt_lines[i] \in {<<"T","O","T","A","L"," ","R","p"," ","5","0",".","0","0","0">>, <<"T","O","T","A","L"," ","R","p"," ","5","0",".","0","0","0"," ","R","e","f"," ","N","o"," ","1","2","3","4","5","6","7">>,
                           <<"R","e","f"," ","N","o"," ","1","2","3","4","5","6","7","8","9","0">>}
    /\ \E i \in 1..Len(xt_lines) : xt_lines[i] # <<"R","e","f"," ","N","o"," ","1","2","3","4","5","6","7","8","9","0">>
    /\ \E i \in 1..Len(xt_lines) : xt_lines[i] # <<"T","O","T","A","L"," ","R","p"," ","5","0",".","0","0","0">>

\* C7: on a line with a total keyword, an amount standing after the first
\* stop label of the text that follows the keyword is never an inline
\* candidate; lines holding "TOTAL Rp 50.000" and a labelled reference
\* number yield 50000.
C7_NothingPastStopLabel ==
    xpc = "done" =>
        /\ \A i \in 1..Len(xt_lines) :
              \A k \in 1..Len(xt.inline[i]) :
                  xt.inline[i][k] \in C7_AnchoredAmounts(xt_lines[i], KeywordsFor(xt_bank))
        /\ C7_ExampleLines => xt.total = Some(50000)

\* a total line whose reference number follows a stop label, next to a line
\* that holds only a reference number
C7_Witness ==
    /\ xpc = "done"
    /\ \E i, j \in 1..Len(xt_lines) :
          /\ xt_lines[i] = <<"T","O","T","A","L"," ","R","p"," ","5","0",".","0","0","0"," ","R","e","f"," ","N","o"," ","1","2","3","4","5","6","7">>
          /\ C7_HasStop(C7_AfterKeyword(xt_lines[i], <<"t","o","t","a","l">>))
          /\ xt.inline[i] = <<50000>>
          /\ xt_lines[j] = <<"R","e","f"," ","N","o"," ","1","2","3","4","5","6","7","8","9","0">>
    /\ xt.total = Some(50000)

----------------------------------------------------------------------------
(* Claims about the amount normalizer and the plausibility filter          *)

\* the positions of the grouping punctuation of a text
SeparatorsOf(c) == {i \in 1..Len(c) : c[i] \in {".", ","}}

\* the length of the group that starts after the separator at position i
GroupAfter(c, i) ==
    LET later == {j \in SeparatorsOf(c) : j > i}
    IN (IF later = {} THEN Len(c) + 1 ELSE Min(later)) - i - 1

C8_HasSuffix(c) ==
    \/ EndsWith(c, <<"r","b">>) \/ EndsWith(c, <<"r","i","b","u">>) \/ EndsWith(c, <<"k">>)
    \/ EndsWith(c, <<"j","t">>) \/ EndsWith(c, <<"j","u","t","a">>)

C8_HasMarker(tok) == Contains(ToLower(tok), <<"r","p">>) \/ Contains(ToLower(tok), <<"i","d","r">>)

C8_DigitCount(c) == Cardinality({i \in 1..Len(c) : IsDigit(c[i])})

\* the four rejection rules, on the token without its currency markers
C8_Rejected(tok) ==
    LET c == CleanMoneyToken(tok)
    IN \/ c = <<>> \/ C8_DigitCount(c) = 0
       \/ ~C8_HasSuffix(c) /\ C8_DigitCount(c) > 12
       \/ /\ ~C8_HasSuffix(c)
          /\ ~C8_HasMarker(tok)
          /\ SeparatorsOf(c) = {}
          /\ C8_DigitCount(c) >= 8
       \/ /\ ~C8_HasSuffix(c)
          /\ SeparatorsOf(c) # {}
          /\ \/ Cardinality(SeparatorsOf(c)) + 1 > 5
             \/ \E i \in SeparatorsOf(c) : GroupAfter(c, i) # 3

C8_BareTenDigits(tok) == Len(tok) = 10 /\ \A i \in 1..Len(tok) : IsDigit(tok[i])

\* C8: _is_plausible_money_token accepts a token exactly when none of the four
\* rejection rules applies (empty or digit-free after removing the currency
\* markers; no suffix and more than 12 digits; no suffix, no marker, no
\* punctuation and 8 or more digits; no suffix and a grouping of more than 5
\* groups or with a later group whose length is not 3); every bare 10-digit
\* string is rejected.
C8_PlausibleExactly ==
    tpc = "done" =>
        /\ plausible = ~C8_Rejected(token)
        /\ C8_BareTenDigits(token) => ~plausible

C8_Witness ==
    /\ tpc = "done"
    /\ token = <<"1","2","3","4","5","6","7","8","9","0">>
    /\ plausible = FALSE

\* the suffix the claim's order ribu, rb, k, juta, jt finds first
C9_Suffix(c) ==
    IF EndsWith(c, <<"r","i","b","u">>) THEN <<"r","i","b","u">>
    ELSE IF EndsWith(c, <<"r","b">>) THEN <<"r","b">>
    ELSE IF EndsWith(c, <<"k">>) THEN <<"k">>
    ELSE IF EndsWith(c, <<"j","u","t","a">>) THEN <<"j","u","t","a">>
    ELSE IF EndsWith(c, <<"j","t">>) THEN <<"j","t">>
    ELSE <<>>

\* a decimal numeral: an optional sign, digits around at most one '.', at
\* least one digit
C9_IsDecimal(s) ==
    LET first == IF s # <<>> /\ s[1] \in {"+", "-"} THEN 2 ELSE 1
    IN /\ \A i \in first..Len(s) : IsDigit(s[i]) \/ s[i] = "."
       /\ Cardinality({i \in first..Len(s) : s[i] = "."}) <= 1
       /\ \E i \in first..Len(s) : IsDigit(s[i])

C9_FractionDigits(s) ==
    IF \E i \in 1..Len(s) : s[i] = "."
    THEN Len(s) - (CHOOSE i \in 1..Len(s) : s[i] = ".")
    ELSE 0

\* r is an integer nearest to (-1)^neg * m * 10^e / 10^f
C9_Nearest(r, neg, m, f, e) ==
    LET a == IF neg THEN 0 - r ELSE r
    IN IF f <= e THEN a = m * Pow10(e - f)
       ELSE /\ 2 * (a * Pow10(f - e) - m) <= Pow10(f - e)
            /\ 2 * (m - a * Pow10(f - e)) <= Pow10(f - e)

C9_Agrees(tok, got) ==
    LET c == CleanAmountToken(tok)
        s == C9_Suffix(c)
        rest == Upto(c, Len(c) - Len(s))
        num == Replace(rest, <<",">>, <<".">>)
        e == IF s \in { <<"j","t">>, <<"j","u","t","a">> } THEN 6 ELSE 3
    IN IF s = <<>>
       THEN IF DigitsOnly(rest) = <<>> THEN got = None
            ELSE got = Some(ToInt(DigitsOnly(rest)))
       ELSE IF ~C9_IsDecimal(num) THEN got = None
            ELSE /\ got # None
                 /\ C9_Nearest(got[1], num[1] = "-", ToInt(DigitsOnly(num)),
                               C9_FractionDigits(num), e)

\* C9: parse_amount_token trims the first suffix of ribu, rb, k, juta, jt from
\* the cleaned token; without suffix it returns the integer of the remaining
\* digits (None if there are none); with a suffix it returns the remainder,
\* read as a decimal with ',' as '.', times 1000 (rb/ribu/k) or 1000000
\* (jt/juta), rounded to the nearest integer (None if it is no decimal).
\* "25000", "25rb", "2.5jt", "Rp 1.200.000" give 25000, 25000, 2500000, 1200000.
C9_ParseAmountToken ==
    tpc = "done" =>
        /\ C9_Agrees(token, amount)
        /\ token = <<"2","5","0","0","0">> => amount = Some(25000)
        /\ token = <<"2","5","r","b">> => amount = Some(25000)
        /\ token = <<"2",".","5","j","t">> => amount = Some(2500000)
        /\ token = <<"R","p"," ","1",".","2","0","0",".","0","0","0">> => amount = Some(1200000)

C9_Witness ==
    /\ tpc = "done"
    /\ token = <<"2",".","5","j","t">>
    /\ amount = Some(2500000)

\* C10: every value parse_amount_token returns is an integer >= 0.
C10_AmountNonNegative ==
    (tpc = "done" /\ amount # None) => amount[1] >= 0

----------------------------------------------------------------------------
(* Claims about the text entry points                                      *)

\* C11: for every string input a core entry point finishes with a value or
\* an explicit absence value; none raises an exception for malformed input.
C11_NeverRaises == tpc # "raised"

\* the text left for the item in a finished parse_expense_input call: the
\* text before the override, without the amount token and the punctuation
\* around it
C12_ItemLabel ==
    LET clean == CutOverride(text_frame.clean, text_frame.category_match)
        amount_match == text_frame.amount_match
    IN StripChars(Upto(clean, amount_match[1]) \o From(clean, amount_match[2]),
                  {" ", ",", ".", "-", ":"})

\* C12: every ParsedExpense returned by parse_expense_input has a non-empty
\* item, an amount > 0 and a non-empty category; a text with no amount token,
\* with a first amount token that is not a positive amount, or with an empty
\* item label gives None; "beli kopi 25rb" gives Kopi / 25000 / Makanan &
\* Minuman.
C12_ParsedExpenseValid ==
    ppc = "done" =>
        /\ text_frame.result # None =>
              /\ text_frame.result[1].item # <<>>
              /\ text_frame.result[1].amount > 0
              /\ text_frame.result[1].category # <<>>
        /\ (\A i \in 1..Len(text_input) : ~IsDigit(text_input[i])) =>
              text_frame.result = None
        /\ parse_amount_from_text(text_input) = None => text_frame.result = None
        /\ (text_frame.amount_match # None /\ C12_ItemLabel = <<>>) =>
              text_frame.result = None
        /\ text_input = <<"b","e","l","i"," ","k","o","p","i"," ","2","5","r","b">> =>
              text_frame.result = Some([item |-> <<"K","o","p","i">>, amount |-> 25000,
                                        category |-> <<"M","a","k","a","n","a","n"," ","&"," ","M","i","n","u","m","a","n">>])

C12_Witness ==
    /\ ppc = "done"
    /\ text_input = <<"b","e","l","i"," ","k","o","p","i"," ","2","5","r","b">>
    /\ text_frame.result # None
    /\ text_frame.result[1].item = <<"K","o","p","i">>

\* the characters of a, in their order, occur in b
RECURSIVE C13_Subsequence(_, _)
C13_Subsequence(a, b) ==
    IF a = <<>> THEN TRUE
    ELSE IF b = <<>> THEN FALSE
    ELSE IF Head(a) = Head(b) THEN C13_Subsequence(Tail(a), Tail(b))
    ELSE C13_Subsequence(a, Tail(b))

\* C13: when parse_expense_input succeeds on a text that ends with the marker
\* "kategori"/"cat" and a label, the category is normalize_category(label)
\* whatever keywords the item contains, and the item is made of the text
\* before the marker only; without an override the category is
\* infer_category(item).  "bayar listrik 450000 kategori Tagihan" gives the
\* category Tagihan.
C13_OverrideBeatsInference ==
    (ppc = "done" /\ text_frame.result # None) =>
        /\ text_frame.category_match # None =>
              /\ text_frame.result[1].category =
                     normalize_category(text_frame.category_match[2])
              /\ C13_Subsequence(ToLower(text_frame.result[1].item),
                                 ToLower(Upto(text_frame.clean,
                                              text_frame.category_match[1])))
        /\ text_frame.category_match = None =>
              text_frame.result[1].category = infer_category(text_frame.result[1].item)
        /\ text_input = <<"b","a","y","a","r"," ","l","i","s","t","r","i","k"," ","4","5","0","0","0","0"," ","k","a","t","e","g","o","r","i"," ","T","a","g","i","h","a","n">> =>
              /\ text_frame.result[1].category = <<"T","a","g","i","h","a","n">>
              /\ text_frame.result[1].item = <<"L","i","s","t","r","i","k">>

C13_Witness ==
    /\ ppc = "done"
    /\ text_frame.result # None
    /\ text_frame.category_match # None
    /\ text_frame.result[1].category = <<"T","a","g","i","h","a","n">>
    /\ infer_category(text_frame.result[1].item) = <<"M","a","k","a","n","a","n"," ","&"," ","M","i","n","u","m","a","n">>

----------------------------------------------------------------------------
(* Claims about the split bill                                             *)

\* the number of places where a keyword occurs in the text
C14_Occurrences(text, keyword) ==
    Cardinality({i \in 1..Len(text) : MatchesAt(text, i, keyword)})

\* the explicit amount after a keyword: none when the one thing that follows
\* the keyword is a percentage
C14_Explicit(text, keyword) ==
    IF /\ C14_Occurrences(text, keyword) = 1
       /\ parse_percentage_after_keyword(text, keyword) # None
    THEN None
    ELSE parse_amount_after_keyword(text, keyword)

C14_Service(text, subtotal) ==
    IF C14_Explicit(text, <<"s","e","r","v","i","c","e">>) # None THEN C14_Explicit(text, <<"s","e","r","v","i","c","e">>)[1]
    ELSE IF parse_percentage_after_keyword(text, <<"s","e","r","v","i","c","e">>) # None
    THEN PercentOf(subtotal, parse_percentage_after_keyword(text, <<"s","e","r","v","i","c","e">>)[1])
    ELSE 0

C14_Tax(text, base) ==
    IF C14_Explicit(text, <<"p","a","j","a","k">>) # None THEN C14_Explicit(text, <<"p","a","j","a","k">>)[1]
    ELSE IF C14_Explicit(text, <<"p","p","n">>) # None THEN C14_Explicit(text, <<"p","p","n">>)[1]
    ELSE IF parse_percentage_after_keyword(text, <<"p","a","j","a","k">>) # None
    THEN PercentOf(base, parse_percentage_after_keyword(text, <<"p","a","j","a","k">>)[1])
    ELSE IF parse_percentage_after_keyword(text, <<"p","p","n">>) # None
    THEN PercentOf(base, parse_percentage_after_keyword(text, <<"p","p","n">>)[1])
    ELSE 0

\* C14: parse_split_bill computes service as the explicit amount after
\* "service", else round(subtotal x pct / 100) for a percentage after
\* "service", else 0; and tax as the explicit amount after "pajak" or "ppn",
\* else round((subtotal + service) x pct / 100) for a percentage after either
\* keyword, else 0.
C14_ServiceAndTax ==
    (ppc = "done" /\ text_frame.result # None) =>
        /\ text_frame.result[1].service_amount =
               C14_Service(text_input, text_frame.result[1].subtotal)
        /\ text_frame.result[1].tax_amount =
               C14_Tax(text_input, text_frame.result[1].subtotal
                                     + text_frame.result[1].service_amount)

\* C15: parse_split_bill returns a result only for a text that contains
\* "split bill" or "patungan"; every result has people >= 1, subtotal > 0,
\* service_amount >= 0, tax_amount >= 0 and grand_total = subtotal +
\* service_amount + tax_amount; a text without a people count, with a people
\* count of 0, or without a positive subtotal gives None.
C15_SplitBillValid ==
    ppc = "done" =>
        /\ text_frame.result # None =>
              /\ \/ Contains(ToLower(text_input), <<"s","p","l","i","t"," ","b","i","l","l">>)
                 \/ Contains(ToLower(text_input), <<"p","a","t","u","n","g","a","n">>)
              /\ text_frame.result[1].people >= 1
              /\ text_frame.result[1].subtotal > 0
              /\ text_frame.result[1].service_amount >= 0
              /\ text_frame.result[1].tax_amount >= 0
              /\ grand_total(text_frame.result[1]) =
                     text_frame.result[1].subtotal
                       + text_frame.result[1].service_amount
                       + text_frame.result[1].tax_amount
        /\ (\A i \in 1..Len(text_input) : ~IsDigit(text_input[i])) =>
              text_frame.result = None
        /\ text_frame.people_match = None => text_frame.result = None
        /\ (text_frame.people_match # None /\ ToInt(text_frame.people_match[1]) = 0) =>
              text_frame.result = None
        /\ (SubtotalOf(text_input) = None \/ SubtotalOf(text_input)[1] <= 0) =>
              text_frame.result = None

C15_Witness ==
    /\ ppc = "done"
    /\ text_input = <<"s","p","l","i","t"," ","b","i","l","l"," ","t","o","t","a","l"," ","3","0","0","0","0","0"," ","u","n","t","u","k"," ","3"," ","o","r","a","n","g"," ","s","e","r","v","i","c","e"," ","1","0","%"," ","p","a","j","a","k"," ","1","0","%">>
    /\ text_frame.triggered
    /\ text_frame.result =
           Some([subtotal |-> 300000, people |-> 3,
                 service_amount |-> 30000, tax_amount |-> 33000])
    /\ grand_total(text_frame.result[1]) = 363000

\* C16: the share reported for a split bill is the ceiling of grand_total /
\* people: people x perPerson >= grand_total and people x (perPerson - 1) <
\* grand_total.
C16_ShareIsCeiling ==
    spc = "done" =>
        /\ ~WideLess(WideTimes(per_person, bill.people), bill.grand_total)
        /\ WideLess(WideTimes(WidePred(per_person), bill.people), bill.grand_total)

----------------------------------------------------------------------------
(* Claims about the categories                                             *)

\* the categories in declaration order
C17_Order ==
    << <<"M","a","k","a","n","a","n"," ","&"," ","M","i","n","u","m","a","n">>, <<"T","r","a","n","s","p","o","r","t","a","s","i">>, <<"B","e","l","a","n","j","a">>, <<"T","a","g","i","h","a","n">>, <<"H","i","b","u","r","a","n">>,
       <<"K","e","s","e","h","a","t","a","n">>, <<"P","e","n","d","i","d","i","k","a","n">> >>

\* category number i has a keyword that occurs in the lower-cased text
C17_Occurs(i, text) ==
    \E k \in 1..Len(CATEGORY_KEYWORDS[i][2]) :
        Contains(ToLower(text), CATEGORY_KEYWORDS[i][2][k])

\* C17: infer_category returns the first category in declaration order
\* (Makanan & Minuman, Transportasi, Belanja, Tagihan, Hiburan, Kesehatan,
\* Pendidikan) with a keyword that is a substring of the lower-cased text,
\* and "Lainnya" exactly when no keyword of any category occurs.
C17_FirstDeclaredWins ==
    /\ [i \in 1..Len(CATEGORY_KEYWORDS) |-> CATEGORY_KEYWORDS[i][1]] = C17_Order
    /\ ppc = "inferred" =>
          /\ text_frame = <<"L","a","i","n","n","y","a">> <=>
                 \A i \in 1..Len(C17_Order) : ~C17_Occurs(i, text_input)
          /\ \A i \in 1..Len(C17_Order) :
                 (C17_Occurs(i, text_input)
                    /\ \A j \in 1..(i - 1) : ~C17_Occurs(j, text_input))
                 => text_frame = C17_Order[i]

C17_Witness ==
    /\ ppc = "inferred"
    /\ C17_Occurs(2, text_input)
    /\ C17_Occurs(6, text_input)
    /\ ~C17_Occurs(1, text_input)
    /\ text_frame = <<"T","r","a","n","s","p","o","r","t","a","s","i">>

\* C18: normalize_category is idempotent: for every name, normalizing the
\* returned name gives the same name again, for known names in any case,
\* free-form names and empty or blank names.
C18_Idempotent ==
    ppc = "renormalized" => text_frame = normalize_category(text_input)

----------------------------------------------------------------------------
(* Claims about the pending receipt of a chat                              *)

\* the edit commands and the field of the pending record each one names
C19_Commands == << <<"u","b","a","h"," ","t","o","t","a","l">>, <<"u","b","a","h"," ","k","a","t","e","g","o","r","i">>, <<"u","b","a","h"," ","m","e","r","c","h","a","n","t">>, <<"u","b","a","h"," ","t","a","n","g","g","a","l">> >>

C19_Fields == <<"amount", "category", "item", "date_text">>

\* the message is edit command number i
C19_IsEdit(message, i) == StartsWith(ToLower(Strip(message)), C19_Commands[i])

\* what the message carries after the command word
C19_Value(message, i) == Strip(From(Strip(message), Len(C19_Commands[i])))

\* the edit carries no value, or no amount above zero for "ubah total"
C19_NoValue(message, i) ==
    \/ C19_Value(message, i) = <<>>
    \/ i = 1 /\ parse_amount_from_text(C19_Value(message, i)) = None

\* the messages of the chat that are edit command number i, and those of
\* them that carry no usable value
C19_EditMessages ==
    << {m \in ChatMessages : C19_IsEdit(m, 1)}, {m \in ChatMessages : C19_IsEdit(m, 2)},
       {m \in ChatMessages : C19_IsEdit(m, 3)}, {m \in ChatMessages : C19_IsEdit(m, 4)} >>

C19_EmptyEdits ==
    << {m \in C19_EditMessages[1] : C19_NoValue(m, 1)},
       {m \in C19_EditMessages[2] : C19_NoValue(m, 2)},
       {m \in C19_EditMessages[3] : C19_NoValue(m, 3)},
       {m \in C19_EditMessages[4] : C19_NoValue(m, 4)} >>

C19_SameBut(before, after, field) ==
    /\ DOMAIN after = DOMAIN before
    /\ \A f \in DOMAIN before : f # field => after[f] = before[f]

\* C19: while a receipt is pending, "ubah total" changes only the pending
\* amount, "ubah kategori" only the category, "ubah merchant" only the item
\* and "ubah tanggal" only the date text; every other field of the pending
\* record, is_bank_transaction included, is unchanged, no expense is
\* recorded and the receipt stays pending; an edit with a missing or
\* invalid value leaves the whole pending record unchanged.
C19_OneFieldAtATime ==
    [][\A i \in 1..Len(C19_Commands) :
          (pending # None /\ text_input' \in C19_EditMessages[i]) =>
              /\ pending' # None
              /\ C19_SameBut(pending[1], pending'[1], C19_Fields[i])
              /\ expenses' = expenses
              /\ text_input' \in C19_EmptyEdits[i] => pending' = pending]_vars

C19_Witness ==
    /\ pending # None
    /\ text_input = <<"u","b","a","h"," ","m","e","r","c","h","a","n","t"," ","T","o","k","o"," ","A">>
    /\ reply = "merchant_changed"
    /\ pending[1].item = <<"B","e","l","a","n","j","a"," ","T","o","k","o"," ","A">>
    /\ pending[1].is_bank_transaction
    /\ pending[1].category = <<"T","r","a","n","s","f","e","r","/","B","a","n","k">>
    /\ expenses = <<>>

\* C20: every field edit of a pending receipt goes through the core's
\* normalizers: after "ubah kategori X" the pending category equals
\* normalize_category(X) and after "ubah total T" the pending amount equals
\* parse_amount_from_text(T), so the category recorded on accept is always
\* a normalized category name.
C20_EditsNormalized ==
    /\ (pending # None /\ C19_IsEdit(text_input, 2) /\ ~C19_NoValue(text_input, 2)) =>
           pending[1].category = normalize_category(C19_Value(text_input, 2))
    /\ (pending # None /\ C19_IsEdit(text_input, 1) /\ ~C19_NoValue(text_input, 1)) =>
           Some(pending[1].amount) = parse_amount_from_text(C19_Value(text_input, 1))
    /\ (reply = "recorded" /\ ToLower(Strip(text_input)) \in ACCEPT_WORDS) =>
           expenses[Len(expenses)].category =
               normalize_category(expenses[Len(expenses)].category)


----------------------------------------------------------------------------
(* Claims about the noise gate and the total candidates                    *)

\* alphanumeric characters over non-blank characters of the joined lines,
\* below 0.45 (9 out of 20 is not below)
C21_WeakText(lines) ==
    LET chars == Join(lines, <<" ">>)
        printable == {i \in 1..Len(chars) : ~IsSpace(chars[i])}
        alnum == {i \in printable : IsAlnum(chars[i])}
    IN 20 * Cardinality(alnum) < 9 * Cardinality(printable)

C21_Expected ==
    \/ Len(ocr.lines) = 0
    \/ xt.total = None
    \/ xt.total[1] < 1000
    \/ xt.used_fallback_total /\ (Len(ocr.lines) <= 2 \/ C21_WeakText(ocr.lines))

\* C21: _is_noisy(lines, total, used_fallback) is true exactly when there
\* are zero normalized lines, or total is absent or below 1000, or
\* used_fallback is true and (the line count is at most 2 or the
\* alphanumeric density of the joined text is below 0.45); in every other
\* case the extraction is not noisy and a structured receipt is returned.
C21_NoisyExactly ==
    opc = "done" =>
        /\ ocr.noisy <=> C21_Expected
        /\ ocr.noisy => ocr.result.receipt = None
        /\ ~ocr.noisy =>
              /\ ocr.result.receipt # None
              /\ ~ocr.result.needs_manual_total_confirmation
              /\ ocr.result.receipt[1].total = xt.total[1]

\* three lines at a density of exactly 0.45 with a fallback total pass the
\* gate
C21_Witness ==
    /\ opc = "done"
    /\ Len(ocr.lines) = 3
    /\ \A i \in 1..3 : ocr.lines[i] = <<"a","b","c","d"," ","1","2","3","4","5"," ","#","#","#","#","#","#","#","#","#","#","#">>
    /\ xt.used_fallback_total
    /\ xt.total = Some(1000)
    /\ ~ocr.noisy
    /\ ocr.result.receipt # None

\* the amounts that occur on a line
C22_AmountsOn(line) ==
    {_extract_amounts(line)[k] : k \in 1..Len(_extract_amounts(line))}

C22_Subtotal(line) ==
    \/ Contains(ToLower(line), <<"s","u","b","t","o","t","a","l">>)
    \/ Contains(ToLower(line), <<"s","u","b"," ","t","o","t","a","l">>)

\* the amount occurs on the lines, and only on subtotal lines
C22_OnlyOnSubtotalLines(a) ==
    /\ \E i \in 1..Len(xt_lines) : a \in C22_AmountsOn(xt_lines[i])
    /\ \A i \in 1..Len(xt_lines) :
          a \in C22_AmountsOn(xt_lines[i]) => C22_Subtotal(xt_lines[i])

\* every amount _extract_total collected or returned
C22_Taken ==
    {xt.keyword_amounts[k] : k \in 1..Len(xt.keyword_amounts)}
    \cup {xt.all_amounts[k] : k \in 1..Len(xt.all_amounts)}
    \cup {xt.total[k] : k \in 1..Len(xt.total)}

\* C22: a subtotal is never treated as the total: an amount that occurs
\* only on lines containing "subtotal" or "sub total" is never returned by
\* _extract_total, neither as an inline keyword candidate, nor as a
\* next-line candidate of a preceding keyword line, nor through the
\* fallback maximum.
C22_SubtotalNeverTotal ==
    xpc = "done" => \A a \in C22_Taken : ~C22_OnlyOnSubtotalLines(a)

\* a keyword line followed by a subtotal line: the total comes from the
\* third line
C22_Witness ==
    /\ xpc = "done"
    /\ xt_lines = << <<"T","o","t","a","l">>, <<"S","u","b","t","o","t","a","l"," ","4","0",".","0","0","0">>, <<"K","o","p","i"," ","1","2",".","5","0","0"," ","2"," ","2","5",".","0","0","0">> >>
    /\ C22_OnlyOnSubtotalLines(40000)
    /\ xt.total = Some(25000)


\* the line contains a noise-exclusion hint
C23_Hinted(line) ==
    \E h \in 1..Len(IGNORE_TOTAL_HINTS) : Contains(ToLower(line), IGNORE_TOTAL_HINTS[h])

\* the plausible amounts of at least the minimum total on lines without a hint
C23_Eligible ==
    {a \in UNION {C22_AmountsOn(xt_lines[i]) : i \in {j \in 1..Len(xt_lines) : ~C23_Hinted(xt_lines[j])}} :
        a >= MIN_TOTAL}

\* C23: when no keyword-anchored candidate exists on any line,
\* _extract_total returns the maximum of all plausible amounts >= 1000 found
\* on lines that contain no noise-exclusion hint, with used_fallback_total
\* true; when no such amount exists it returns an absent total with
\* used_fallback_total false. The fallback is never used when a
\* keyword-anchored candidate exists.
C23_FallbackMaximum ==
    xpc = "done" =>
        IF xt.keyword_amounts = <<>>
        THEN IF C23_Eligible = {}
             THEN xt.total = None /\ ~xt.used_fallback_total
             ELSE xt.total = Some(Max(C23_Eligible)) /\ xt.used_fallback_total
        ELSE /\ ~xt.used_fallback_total
             /\ xt.all_amounts = <<>>
             /\ \E k \in 1..Len(xt.keyword_amounts) : xt.total = Some(xt.keyword_amounts[k])

\* an amount below the minimum, two item amounts and a larger amount on a
\* hinted line: the fallback returns the larger item amount
C23_Witness ==
    /\ xpc = "done"
    /\ xt_lines = << <<"R","o","t","i"," ","9","0","0">>, <<"K","o","p","i"," ","1","2",".","5","0","0"," ","2"," ","2","5",".","0","0","0">>, <<"C","a","s","h"," ","1","0","0",".","0","0","0">> >>
    /\ xt.keyword_amounts = <<>>
    /\ xt.total = Some(25000)
    /\ xt.used_fallback_total

\* the line is read as a keyword line: it holds a total keyword and no
\* subtotal marker
C24_KeywordLine(line) ==
    /\ ~C22_Subtotal(line)
    /\ \E k \in 1..Len(KeywordsFor(xt_bank)) : Contains(ToLower(line), KeywordsFor(xt_bank)[k])

\* the candidate the line after line idx contributes
C24_NextLineCandidate(idx) ==
    IF /\ C24_KeywordLine(xt_lines[idx])
       /\ xt.inline[idx] = <<>>
       /\ idx + 1 <= Len(xt_lines)
       /\ ~C23_Hinted(xt_lines[idx + 1])
       /\ _extract_amounts(xt_lines[idx + 1]) # <<>>
    THEN <<_extract_amounts(xt_lines[idx + 1])[1]>>
    ELSE <<>>

\* the candidates in the order the lines contribute them
RECURSIVE C24_Candidates(_)
C24_Candidates(idx) ==
    IF idx > Len(xt_lines) THEN <<>>
    ELSE xt.inline[idx] \o C24_NextLineCandidate(idx) \o C24_Candidates(idx + 1)

\* C24: for a line containing a total keyword (and no subtotal marker), the
\* amount on the following line is taken as a candidate only if no inline
\* amount was found after any keyword on the keyword line and the following
\* line contains no noise-exclusion hint; when it is taken, it is the first
\* plausible amount of the following line. A following line that contains a
\* hint never contributes a next-line candidate.
C24_NextLineCandidates ==
    xpc = "done" =>
        /\ Len(xt.inline) = Len(xt_lines)
        /\ xt.keyword_amounts = C24_Candidates(1)
        /\ \A i \in 1..Len(xt_lines) :
              ~C24_KeywordLine(xt_lines[i]) => xt.inline[i] = <<>>

\* a bare keyword line followed by an item line with two amounts: the first
\* of them is the candidate
C24_Witness ==
    /\ xpc = "done"
    /\ xt_lines = << <<"T","o","t","a","l">>, <<"K","o","p","i"," ","1","2",".","5","0","0"," ","2"," ","2","5",".","0","0","0">>, <<"C","a","s","h"," ","1","0","0",".","0","0","0">> >>
    /\ xt.inline[1] = <<>>
    /\ xt.keyword_amounts = <<12500>>
    /\ xt.total = Some(12500)

\* the lower-cased joined lines
C25_Joined == ToLower(Join(xt_lines, <<" ">>))

C25_Context ==
    { <<"t","r","a","n","s","f","e","r">>, <<"p","e","n","e","r","i","m","a">>, <<"r","e","c","i","p","i","e","n","t">>, <<"b","e","n","e","f","i","c","i","a","r","y">>, <<"r","e","c","e","i","v","e","r">>,
      <<"r","e","k","e","n","i","n","g">>, <<"a","c","c","o","u","n","t">>, <<"n","o","m","i","n","a","l">>, <<"d","e","b","i","t">>, <<"s","a","l","d","o">>, <<"r","e","f">>, <<"t","r","x">>,
      <<"q","r","i","s">> }

C25_HasBankName == \E b \in 1..Len(BANK_NAMES) : Contains(C25_Joined, BANK_NAMES[b])

C25_HasContext == \E word \in C25_Context : Contains(C25_Joined, word)

\* the number of BANK_HINTS keywords that occur
C25_Hints == Cardinality({h \in 1..Len(BANK_HINTS) : Contains(C25_Joined, BANK_HINTS[h])})

\* C25: _detect_bank_transaction returns true if the lower-cased joined
\* lines contain a known bank name together with at least one
\* banking-context keyword; otherwise true if at least 2 keywords of the
\* broader BANK_HINTS set occur; otherwise false. A text with a bank name
\* but no context keyword and fewer than 2 hints is classified as retail.
C25_BankDetection ==
    xpc = "detected" =>
        /\ xt_bank = ((C25_HasBankName /\ C25_HasContext) \/ C25_Hints >= 2)
        /\ (C25_HasBankName /\ ~C25_HasContext /\ C25_Hints < 2) => ~xt_bank

\* a bank name and a context word that is no hint: a bank transaction with
\* no hint at all
C25_Witness ==
    /\ xpc = "detected"
    /\ xt_lines = << <<"T","o","k","o"," ","M","a","j","u">>, <<"M","a","n","d","i","r","i">>, <<"N","o","m","i","n","a","l">> >>
    /\ C25_HasBankName /\ C25_HasContext /\ C25_Hints = 0
    /\ xt_bank

\* the positions _pick_merchant may take the merchant from
C26_FirstLines == 1..(IF Len(xt_lines) < 3 THEN Len(xt_lines) ELSE 3)

C26_Letters(line) == CountChars(line, LowerLetters \cup UpperLetters)

\* letters - 2 x digits, minus 8 if the line contains "rp"
C26_Score(line) ==
    C26_Letters(line) - 2 * CountChars(line, Digits)
    - (IF Contains(ToLower(line), <<"r","p">>) THEN 8 ELSE 0)

\* no structural hint and at least 3 alphabetic characters
C26_Qualifies(line) ==
    /\ \A h \in 1..Len(MERCHANT_SKIP_HINTS) : ~Contains(ToLower(line), MERCHANT_SKIP_HINTS[h])
    /\ C26_Letters(line) >= 3

C26_Qualifying == {i \in C26_FirstLines : C26_Qualifies(xt_lines[i])}

\* the earliest of the qualifying positions with the highest score
C26_Best ==
    Min({i \in C26_Qualifying :
            \A j \in C26_Qualifying : C26_Score(xt_lines[j]) <= C26_Score(xt_lines[i])})

\* the title-cased line: a character after a letter is lower-cased, any
\* other character is upper-cased
C26_Titled(line) ==
    [i \in 1..Len(line) |->
        IF i > 1 /\ IsAlpha(line[i - 1]) THEN LowerChar(line[i]) ELSE UpperChar(line[i])]

\* C26: in retail mode _pick_merchant only ever looks at the first 3 lines:
\* it returns the title-cased line that has the highest score among the
\* first-3 lines that contain no structural hint and have at least 3
\* alphabetic characters, the earliest such line winning a tie; it returns
\* "Merchant tidak diketahui" when no line qualifies. A line at position 4
\* or later is never the merchant.
C26_RetailMerchant ==
    xpc = "picked" =>
        IF C26_Qualifying = {}
        THEN xt.merchant = <<"M","e","r","c","h","a","n","t"," ","t","i","d","a","k"," ","d","i","k","e","t","a","h","u","i">>
        ELSE xt.merchant = C26_Titled(xt_lines[C26_Best])

\* the line holds a recipient label
C27_Labelled(line) ==
    \E l \in 1..Len(RECIPIENT_LABELS) : Contains(ToLower(line), RECIPIENT_LABELS[l])

\* the inline "label: value" capture if present and otherwise the next line
C27_Candidate(idx) ==
    IF InlineCapture(xt_lines[idx]) # <<>> THEN Strip(InlineCapture(xt_lines[idx])[1])
    ELSE IF idx < Len(xt_lines) THEN Strip(xt_lines[idx + 1])
    ELSE <<>>

\* length >= 3, none of pan/ref/terminal/id/rekening/account, digit-to-length
\* ratio < 0.4
C27_Acceptable(candidate) ==
    /\ Len(candidate) >= 3
    /\ \A hint \in { <<"p","a","n">>, <<"r","e","f">>, <<"t","e","r","m","i","n","a","l">>, <<"i","d">>, <<"r","e","k","e","n","i","n","g">>, <<"a","c","c","o","u","n","t">> } :
          ~Contains(ToLower(candidate), hint)
    /\ 10 * CountChars(candidate, Digits) < 4 * Len(candidate)

C27_Recipients ==
    {i \in 1..Len(xt_lines) :
        C27_Labelled(xt_lines[i]) /\ C27_Acceptable(C27_Candidate(i))}

\* the lines among the first 6 that contain a bank name
C27_BankLines ==
    {i \in 1..Len(xt_lines) :
        i <= 6 /\ \E b \in 1..Len(BANK_NAMES) : Contains(ToLower(xt_lines[i]), BANK_NAMES[b])}

\* the first declared bank name on the line
C27_BankOn(line) ==
    BANK_NAMES[Min({b \in 1..Len(BANK_NAMES) : Contains(ToLower(line), BANK_NAMES[b])})]

\* C27: in bank mode _pick_bank_merchant scans the lines in order and, for
\* each line holding a recipient label, takes the inline "label: value"
\* capture if present and otherwise the next line; it returns the first such
\* candidate (title-cased) that has length >= 3, contains none of
\* pan/ref/terminal/id/rekening/account and has digit-to-length ratio < 0.4.
\* Only when no label line yields an acceptable candidate does it return
\* "Transfer <BANK>" for the first bank name found in the first 6 lines, and
\* only when that also fails "Transaksi Bank".
C27_BankMerchant ==
    (xpc = "picked" /\ xt_bank) =>
        IF C27_Recipients # {}
        THEN xt.merchant = Title(C27_Candidate(Min(C27_Recipients)))
        ELSE IF C27_BankLines # {}
             THEN xt.merchant = <<"T","r","a","n","s","f","e","r"," ">> \o ToUpper(C27_BankOn(xt_lines[Min(C27_BankLines)]))
             ELSE xt.merchant = <<"T","r","a","n","s","a","k","s","i"," ","B","a","n","k">>

\* the first label line has a value that contains "id", the second has none
\* and takes the line after it
C27_Witness ==
    /\ xpc = "picked"
    /\ xt_bank
    /\ xt_lines = << HeaderLine, <<"P","e","n","e","r","i","m","a",":"," ","S","i","t","i"," ","H","i","d","a","y","a","t">>, <<"P","e","n","e","r","i","m","a">>, <<"B","u","d","i"," ","S","a","n","t","o","s","o">> >>
    /\ C27_Recipients = {3}
    /\ xt.merchant = <<"B","u","d","i"," ","S","a","n","t","o","s","o">>

\* the messages of the chat that are an accept word, a cancel word, or
\* neither
C28_AcceptMessages ==
    {m \in ChatMessages : ToLower(Strip(m)) \in { <<"s","i","m","p","a","n">>, <<"y","a">>, <<"y">>, <<"o","k","e">>, <<"o","k">> }}

C28_CancelMessages ==
    {m \in ChatMessages : ToLower(Strip(m)) \in { <<"b","a","t","a","l">>, <<"t","i","d","a","k">>, <<"g","a">>, <<"g","a","k">> }}

C28_OtherMessages == (ChatMessages \ C28_AcceptMessages) \ C28_CancelMessages

\* C28: for any sequence of photo and text messages of one chat, an
\* extracted receipt is persisted at most once and only by an accept word.
\* While a receipt is pending, a text message records an expense only if it
\* is one of simpan/ya/y/oke/ok, in which case exactly one expense with the
\* pending record's current item, amount (> 0) and category is stored and
\* the state becomes no-pending; a cancel word (batal/tidak/ga/gak) makes
\* the state no-pending with nothing stored; any other text stores nothing
\* and leaves the receipt pending. A photo whose extraction needs manual
\* confirmation never creates or replaces a pending receipt.
C28_PendingReceipt ==
    [][/\ text_input' = <<>> => expenses' = expenses
       /\ (text_input' = <<>> /\ reply' = "manual") => pending' = pending
       /\ (pending # None /\ text_input' \in C28_AcceptMessages) =>
              /\ pending[1].amount > 0
              /\ expenses' = Append(expenses, [item |-> pending[1].item,
                                               amount |-> pending[1].amount,
                                               category |-> pending[1].category])
              /\ pending' = None
       /\ (pending # None /\ text_input' \in C28_CancelMessages) =>
              pending' = None /\ expenses' = expenses
       /\ (pending # None /\ text_input' \in C28_OtherMessages) =>
              pending' # None /\ expenses' = expenses]_vars

\* a receipt whose merchant and total were edited has been accepted: the
\* edited values are stored and nothing is pending
C28_Witness ==
    /\ reply = "recorded"
    /\ text_input \in C28_AcceptMessages
    /\ pending = None
    /\ Len(expenses) = 1
    /\ expenses[1].item = <<"B","e","l","a","n","j","a"," ","T","o","k","o"," ","A">>
    /\ expenses[1].amount = 125000
====
